---- MODULE Spec2Model ----
(***************************************************************************)
(* Model of the scoring-and-caching engine of snp5000:                     *)
(*   - FinnhubClient (services/rating_service.py): sliding-window throttle *)
(*     and the retry loop of get, one step per source line so that callers *)
(*     sharing a client interleave as Python threads do;                   *)
(*   - RatingService: the TTL snapshot lookups, the per-instance macro     *)
(*     cache and calculate_rating;                                         *)
(*   - calculate_and_store_rating (app/services/rating.py), which builds   *)
(*     a new RatingService for every request.                              *)
(* Time is the wall clock in ticks of 0.05 s (the smallest duration the    *)
(* code uses); time.time(), datetime.utcnow() and datetime.now() all read  *)
(* this one clock.                                                         *)
(***************************************************************************)
EXTENDS Integers, Sequences, FiniteSets, TLC

\* ------------------------------------------------------------------------
\* Bounds of the model
\* ------------------------------------------------------------------------
\* the max_per_minute a client is constructed with (55 by default)
MaxPerMinute == 2
\* provider requests issued in one behaviour
MaxIssued == 4
\* clock advances (other than sleeping) in one behaviour
MaxTicks == 3
\* answers other than a usable payload in one behaviour
MaxFaults == 3
\* the same budgets when several threads interleave
MaxIssuedShared == 3
MaxTicksShared == 1
MaxFaultsShared == 1

\* ------------------------------------------------------------------------
\* Program constants
\* ------------------------------------------------------------------------
\* 1 tick = 0.05 s, the slack added to the throttle's sleep
TicksPerSecond == 20
\* width of the sliding window, in seconds
WindowSeconds == 60
\* the 0.05 s slack, in ticks
Slack == 1
\* range(3): attempts of one get
MaxAttempts == 3
\* 1.5 s back-off unit, in ticks
BackoffUnit == 30

Window == WindowSeconds * TicksPerSecond

\* two worker threads of the request pool
Threads == 1..2

\* what the provider can answer to one request: a usable payload, a
\* successful but empty/unusable payload, the rate-limit status, another
\* non-success status
Responses == {"ok", "empty", "429", "500"}

Max2(a, b) == IF a >= b THEN a ELSE b

\* one score point, in units of 0.00001
Point == 100000

\* an Optional[float] is <<>> for None and <<v>> for the value v; `not x`
\* of Python is true for None and for 0.0
Falsy(x) == x = <<>> \/ x[1] = 0

VARIABLES
    now,          \* wall clock
    nticks,       \* clock advances taken so far
    nfault,       \* answers other than a usable payload given so far
    lim,          \* the budgets and the input sets of this behaviour
    callers,      \* threads that run handlers in this behaviour
    eng,          \* eng[t]: the FinnhubClient / RatingService instance thread t uses
    call_times,   \* call_times[e]: FinnhubClient._call_times of instance e
    pc,           \* pc[t]: position of thread t
    cont,         \* cont[t]: the caller of the running get
    attempt,      \* attempt[t]: loop variable of get
    tnow,         \* tnow[t]: local `now` of _throttle
    wake,         \* wake[t]: end of the running time.sleep
    getret,       \* getret[t]: outcome of the last get
    reqno,        \* reqno[t]: requests thread t has sent
    issued,       \* history: provider requests, in order of issue
    resps,        \* history: resps[t], statuses answered to the running get
    pauses,       \* history: pauses[t], back-off pauses of the running get
    \* the database
    stocks,                  \* symbols that have a Stock row
    technical_indicators,    \* rows of TechnicalIndicator, in insertion order
    fundamental_indicators,  \* rows of FundamentalIndicator, in insertion order
    ratings,                 \* rows of Rating, in insertion order
    \* the FRED credential of the process
    fred_key,
    \* RatingService instances
    macro_cache,       \* macro_cache[e]: _macro_cache, 0 for None, else an object
    macro_cache_time,  \* macro_cache_time[e]: _macro_cache_time
    macro_made,        \* the macro result objects made so far; an object is its index
    \* a running rating request
    entry,        \* entry[t]: "api" (calculate_and_store_rating) or "direct"
    sym,          \* sym[t]: the symbol being rated
    technical,    \* technical[t]: the row _get_or_fetch_technical returned, 0 for none
    fundamental,  \* fundamental[t]: the row _get_or_fetch_fundamental returned
    analyst,      \* analyst[t]: outcome of _get_analyst_score
    macro_data,   \* macro_data[t]: the object _get_macro_score returned
    outcome,      \* outcome[t]: how the last request of thread t ended
    nreqs,        \* rating requests started so far
    \* histories
    look,         \* look[t]: the snapshot lookup in progress
    hist,         \* finished snapshot lookups, in order
    returned,     \* history: what the finished calls of the public operations returned
    mcall,        \* mcall[t]: the last _get_macro_score call of thread t
    \* the request limiters of the api
    hits,         \* hits[ip]: InMemoryRateLimiter._hits[ip]
    redis,        \* redis[ip]: the counter key of ip, with its expiry
    limited,      \* history: the calls of the limiter, in order
    \* the release calendar of MacroeconomicService
    release_cache,  \* release_cache[k]: _release_cache[k], <<>> when absent
    releases,       \* history: the calls of _get_next_release_date, in order
    \* database sessions; a session is a number, 0 stands for None
    self_db,      \* self_db[e]: RatingService.db of instance e
    db,           \* db[t]: the local db of the running calculate_rating
    closed,       \* the sessions that have been closed
    exits,        \* history: how each calculate_rating left, with its sessions
    \* the macro endpoints of the api
    macro_snapshots,  \* rows of MacroSnapshot, in insertion order
    mpc,              \* mpc[t]: the endpoint thread t is refreshing for
    served            \* history: the answers of the macro endpoints, in order

clientVars == <<eng, call_times, pc, cont, attempt, tnow, wake, getret,
                reqno, issued, resps, pauses>>
\* the client variables a step of RatingService outside get leaves alone
clientRest == <<eng, call_times, cont, attempt, tnow, wake, getret, reqno,
                issued, resps, pauses>>
ratingVars == <<stocks, technical_indicators, fundamental_indicators, ratings,
                fred_key, macro_cache, macro_cache_time, macro_made, entry,
                sym, technical, fundamental, analyst, macro_data, outcome,
                nreqs, look, hist, mcall, returned>>
limiterVars == <<hits, redis, limited>>
releaseVars == <<release_cache, releases>>
sessionVars == <<self_db, db, closed, exits>>
snapshotVars == <<macro_snapshots, mpc, served>>
\* the api variables calculate_rating leaves alone
apiRest == <<limiterVars, releaseVars, snapshotVars>>
apiVars == <<apiRest, sessionVars>>
vars == <<now, nticks, nfault, lim, callers, apiVars, ratingVars, clientVars>>

\* ------------------------------------------------------------------------
\* FinnhubClient._throttle, one action per line
\* ------------------------------------------------------------------------
\* line 40: the prune test of the while loop
IsOld(n, ts) == n - ts > Window

\* a sleep that ends 0.05 s before the oldest timestamp leaves the window
SleepForEarly(n, oldest) == Window - (n - oldest) - Slack

\* line 43: sleep_for = 60 - (now - self._call_times[0]) + 0.05
SleepFor(n, oldest) == Window - (n - oldest) + Slack

\* line 42: the window is full
WindowFull(q) == Len(q) >= MaxPerMinute

\* line 38: now = time.time()
L38(t) ==
    /\ pc[t] = "l38"
    /\ tnow' = [tnow EXCEPT ![t] = now]
    /\ pc' = [pc EXCEPT ![t] = "l40"]
    /\ UNCHANGED <<now, nticks, nfault, lim, callers, apiVars, ratingVars, eng, reqno, call_times, cont, attempt, wake,
                   getret, issued, resps, pauses>>

\* line 40: while self._call_times and now - self._call_times[0] > 60
L40(t) ==
    /\ pc[t] = "l40"
    /\ LET q == call_times[eng[t]] IN
         pc' = [pc EXCEPT ![t] =
                  IF q # <<>> /\ IsOld(tnow[t], Head(q)) THEN "l41" ELSE "l42"]
    /\ UNCHANGED <<now, nticks, nfault, lim, callers, apiVars, ratingVars, eng, reqno, call_times, cont, attempt, tnow,
                   wake, getret, issued, resps, pauses>>

\* line 41: self._call_times.popleft(); IndexError on an empty deque
L41(t) ==
    /\ pc[t] = "l41"
    /\ LET q == call_times[eng[t]] IN
         IF q = <<>>
         THEN /\ getret' = [getret EXCEPT ![t] = "IndexError"]
              /\ pc' = [pc EXCEPT ![t] = "get_done"]
              /\ UNCHANGED call_times
         ELSE /\ call_times' = [call_times EXCEPT ![eng[t]] = Tail(q)]
              /\ pc' = [pc EXCEPT ![t] = "l40"]
              /\ UNCHANGED getret
    /\ UNCHANGED <<now, nticks, nfault, lim, callers, apiVars, ratingVars, eng, reqno, cont, attempt, tnow, wake,
                   issued, resps, pauses>>

\* line 42: if len(self._call_times) >= self.max_per_minute
L42(t) ==
    /\ pc[t] = "l42"
    /\ pc' = [pc EXCEPT ![t] =
                IF WindowFull(call_times[eng[t]]) THEN "l43" ELSE "l45"]
    /\ UNCHANGED <<now, nticks, nfault, lim, callers, apiVars, ratingVars, eng, reqno, call_times, cont, attempt, tnow,
                   wake, getret, issued, resps, pauses>>

\* lines 43-44: compute sleep_for and enter time.sleep(max(sleep_for, 0))
L43(t) ==
    /\ pc[t] = "l43"
    /\ LET q == call_times[eng[t]] IN
         IF q = <<>>
         THEN /\ getret' = [getret EXCEPT ![t] = "IndexError"]
              /\ pc' = [pc EXCEPT ![t] = "get_done"]
              /\ UNCHANGED wake
         ELSE /\ wake' = [wake EXCEPT ![t] =
                            now + Max2(SleepFor(tnow[t], Head(q)), 0)]
              /\ pc' = [pc EXCEPT ![t] = "l44"]
              /\ UNCHANGED getret
    /\ UNCHANGED <<now, nticks, nfault, lim, callers, apiVars, ratingVars, eng, reqno, call_times, cont, attempt, tnow,
                   issued, resps, pauses>>

\* line 44: time.sleep returns, not before the requested duration has passed
L44(t) ==
    /\ pc[t] = "l44"
    /\ now' = Max2(now, wake[t])
    /\ pc' = [pc EXCEPT ![t] = "l45"]
    /\ UNCHANGED <<nticks, nfault, lim, callers, apiVars, ratingVars, eng, reqno, call_times, cont, attempt, tnow, wake,
                   getret, issued, resps, pauses>>

\* The history of requests is kept in order of issue time; requests of
\* different clients issued at the same instant are listed by client.
Before(a, b) == a.time < b.time \/ (a.time = b.time /\ a.client <= b.client)

RECURSIVE Record(_, _)
Record(h, r) ==
    IF h = <<>> \/ Before(h[Len(h)], r) THEN Append(h, r)
    ELSE Append(Record(SubSeq(h, 1, Len(h) - 1), r), h[Len(h)])

\* line 45 and the send of line 53: the timestamp is appended and the
\* request leaves for the provider
L45(t) ==
    /\ pc[t] = "l45"
    /\ Len(issued) < lim.issued
    /\ call_times' = [call_times EXCEPT ![eng[t]] = Append(@, now)]
    /\ issued' = Record(issued, [time |-> now, client |-> eng[t]])
    /\ reqno' = [reqno EXCEPT ![t] = @ + 1]
    /\ pc' = [pc EXCEPT ![t] = "l53"]
    /\ UNCHANGED <<now, nticks, nfault, lim, callers, apiVars, ratingVars, eng, cont, attempt, tnow, wake,
                   getret, resps, pauses>>

\* ------------------------------------------------------------------------
\* FinnhubClient.get
\* ------------------------------------------------------------------------
\* every non-success status taken for the rate-limit status
IsRateLimitedAnyError(status) == status \in {"429", "500"}

\* line 54: if resp.status_code == 429
IsRateLimited(status) == status = "429"

\* line 56: time.sleep(1.5 * (attempt + 1))
Backoff(a) == BackoffUnit * (a + 1)

\* lines 59-60 and 58: what get hands to its caller
GetOutcome(status) ==
    CASE status = "ok"    -> "json"
      [] status = "empty" -> "falsy"
      [] status = "500"   -> "HTTPError"
      [] OTHER            -> "None"

\* the value get returns when the loop runs out (line 60)
ExhaustedOutcome == "None"

\* entry of get (lines 48-51): attempt = 0
GetStart(t, c) ==
    /\ cont' = [cont EXCEPT ![t] = c]
    /\ attempt' = [attempt EXCEPT ![t] = 0]
    /\ getret' = [getret EXCEPT ![t] = "running"]
    /\ resps' = [resps EXCEPT ![t] = <<>>]
    /\ pauses' = [pauses EXCEPT ![t] = <<>>]
    /\ pc' = [pc EXCEPT ![t] = "l38"]

\* lines 53-59: the response arrives
L53(t, status) ==
    /\ pc[t] = "l53"
    /\ status # "ok" => nfault < lim.faults
    /\ nfault' = IF status # "ok" THEN nfault + 1 ELSE nfault
    /\ resps' = [resps EXCEPT ![t] = Append(@, status)]
    /\ IF IsRateLimited(status)
       THEN /\ wake' = [wake EXCEPT ![t] = now + Backoff(attempt[t])]
            /\ pauses' = [pauses EXCEPT ![t] = Append(@, Backoff(attempt[t]))]
            /\ pc' = [pc EXCEPT ![t] = "l56"]
            /\ UNCHANGED getret
       ELSE /\ getret' = [getret EXCEPT ![t] = GetOutcome(status)]
            /\ pc' = [pc EXCEPT ![t] = "get_done"]
            /\ UNCHANGED <<wake, pauses>>
    /\ UNCHANGED <<now, nticks, lim, callers, apiVars, ratingVars, eng, reqno, call_times, cont, attempt, tnow,
                   issued>>

\* lines 56-57 and 60: the back-off sleep ends; next attempt, or the loop is
\* exhausted
L56(t) ==
    /\ pc[t] = "l56"
    /\ now' = Max2(now, wake[t])
    /\ attempt' = [attempt EXCEPT ![t] = @ + 1]
    /\ IF attempt[t] + 1 < MaxAttempts
       THEN /\ pc' = [pc EXCEPT ![t] = "l38"]
            /\ UNCHANGED getret
       ELSE /\ getret' = [getret EXCEPT ![t] = ExhaustedOutcome]
            /\ pc' = [pc EXCEPT ![t] = "get_done"]
    /\ UNCHANGED <<nticks, nfault, lim, callers, apiVars, ratingVars, eng, reqno, call_times, cont, tnow, wake,
                   issued, resps, pauses>>

\* positions inside get
GetPcs == {"l38", "l40", "l41", "l42", "l43", "l44", "l45", "l53", "l56"}

\* ------------------------------------------------------------------------
\* The clock
\* ------------------------------------------------------------------------
\* 0.05 s, 30 s, 60 s
ClientDeltas == {1, 30 * TicksPerSecond, Window}

\* positions whose next step reads the clock into the window (lines 38, 45)
ClockReaders == {"l38", "l45"}

\* Time passes.  The clock is only observed where a thread reads it, so an
\* advance anywhere else is the same as an advance just before the next
\* read: the action is taken only there.
Tick(d) ==
    /\ nticks < lim.ticks
    /\ \E t \in callers : pc[t] \in lim.readers
    /\ now' = now + d
    /\ nticks' = nticks + 1
    /\ UNCHANGED <<nfault, lim, callers, apiVars, ratingVars, clientVars>>

\* ------------------------------------------------------------------------
\* The snapshot tables and their TTL lookups (RatingService)
\* ------------------------------------------------------------------------
Symbols == {"AAPL", "MSFT"}

\* self.technical_ttl_hours, self.fundamental_ttl_hours, timedelta(hours=1)
TechnicalTtlHours == 6
FundamentalTtlHours == 24
MacroTtlHours == 1

Hour == 3600 * TicksPerSecond

Ttl(kind) ==
    IF kind = "technical" THEN TechnicalTtlHours * Hour
    ELSE FundamentalTtlHours * Hour

Table(kind) ==
    IF kind = "technical" THEN technical_indicators ELSE fundamental_indicators

\* calculated_at of a technical row, fetched_at of a fundamental row
Stamp(kind, i) ==
    IF kind = "technical" THEN technical_indicators[i].calculated_at
    ELSE fundamental_indicators[i].fetched_at

RowsOf(kind, s) == {i \in 1..Len(Table(kind)) : Table(kind)[i].stock_id = s}

\* the cutoff taken ttl after now instead of before
IsFreshCutoffAhead(ts, n, ttl) == ts >= n + ttl

\* no cutoff in the filter
IsFreshNoCutoff(ts, n, ttl) == TRUE

\* the filter of the query: calculated_at >= cutoff, cutoff = utcnow() - ttl
IsFresh(ts, n, ttl) == ts >= n - ttl

FreshRows(kind, s, n) ==
    {i \in RowsOf(kind, s) : IsFresh(Stamp(kind, i), n, Ttl(kind))}

\* first() without the order_by: any row of S
NewestUnordered(kind, S) == S

\* order_by(desc(...)).first(): a row of S with the greatest timestamp; rows
\* with equal timestamps come in no defined order
Newest(kind, S) == {i \in S : \A j \in S : Stamp(kind, j) <= Stamp(kind, i)}

\* the greatest timestamp stored for s, -1 when there is none
LatestStamp(kind, s) ==
    IF RowsOf(kind, s) = {} THEN -1
    ELSE Stamp(kind, CHOOSE i \in Newest(kind, RowsOf(kind, s)) : TRUE)

\* db.add(row); db.commit(): a new row, the older ones stay as they are
InsertRow(table, row) == Append(table, row)

\* what a lookup knows when it runs its query
LookupRecord(kind, s) ==
    [kind |-> kind, stock |-> s, at |-> now, latest |-> LatestStamp(kind, s),
     nrows |-> Len(Table(kind))]

\* the lookup is over: returned row (0 when it raised) and its contents
Finished(rec, hit, ret, row, stamp, data) ==
    [kind |-> rec.kind, stock |-> rec.stock, at |-> rec.at,
     latest |-> rec.latest, nrows |-> rec.nrows, hit |-> hit,
     fetch |-> ~hit, ret |-> ret, row |-> row, stamp |-> stamp, data |-> data]

\* ------------------------------------------------------------------------
\* Scores of the snapshots.  A float column is <<v>>, or <<>> when it holds
\* NaN (technical: a rolling mean over too short a history) or None
\* (fundamental: a metric the provider did not give).  P/B is in tenths,
\* the profit margin in hundredths, scores in units of 0.00001.
\* ------------------------------------------------------------------------
\* a >= b
GtOrEqual(a, b) == a # <<>> /\ b # <<>> /\ a[1] >= b[1]
\* a > b of two floats: false when either is NaN
Gt(a, b) == a # <<>> /\ b # <<>> /\ a[1] > b[1]

\* min(max(score, 0), 10)
Clamp(score) == IF score < 0 THEN 0 ELSE IF score > 10 * Point THEN 10 * Point ELSE score

\* _calculate_technical_score; comparing floats raises nothing, so the
\* handler of lines 398-400 is not entered
CalculateTechnicalScore(c) ==
    LET price == <<c.current_price>>
        a == IF Gt(price, c.sma_50) THEN 150000 ELSE 0
        b == IF Gt(price, c.sma_200) THEN 150000 ELSE 0
        x == IF Gt(c.sma_50, c.sma_200) THEN 100000 ELSE 0
        r == IF 40 <= c.rsi /\ c.rsi <= 60 THEN 150000
             ELSE IF 30 <= c.rsi /\ c.rsi <= 70 THEN 100000
             ELSE IF c.rsi < 30 \/ c.rsi > 70 THEN 50000
             ELSE 0
        m == IF c.macd > c.macd_signal THEN 150000 ELSE 0 IN
    Clamp(5 * Point + a + b + x + r + m)

\* lines 408-415
PeAdjust(pe_ratio) ==
    IF Falsy(pe_ratio) THEN 0
    ELSE LET v == pe_ratio[1] IN
         IF 10 <= v /\ v <= 20 THEN 150000
         ELSE IF 5 <= v /\ v <= 30 THEN 100000
         ELSE IF v < 5 \/ v > 50 THEN -50000
         ELSE 0

\* lines 417-422
PbAdjust(pb_ratio) ==
    IF Falsy(pb_ratio) THEN 0
    ELSE LET v == pb_ratio[1] IN
         IF 10 <= v /\ v <= 30 THEN 100000
         ELSE IF v < 10 THEN 150000
         ELSE 0

\* lines 424-429
DebtAdjust(debt_to_equity) ==
    IF Falsy(debt_to_equity) THEN 0
    ELSE LET v == debt_to_equity[1] IN
         IF v < 50 THEN 100000
         ELSE IF v > 100 THEN -50000
         ELSE 0

\* lines 431-438
MarginAdjust(profit_margin) ==
    IF Falsy(profit_margin) THEN 0
    ELSE LET v == profit_margin[1] IN
         IF v > 15 THEN 150000
         ELSE IF v > 5 THEN 100000
         ELSE IF v < 0 THEN -100000
         ELSE 0

\* _calculate_fundamental_score
CalculateFundamentalScore(c) ==
    Clamp(5 * Point + PeAdjust(c.pe_ratio) + PbAdjust(c.pb_ratio)
          + DebtAdjust(c.debt_to_equity) + MarginAdjust(c.profit_margin))

\* a technical snapshot of a rising price, and snapshots of a short
\* history, of an overbought and of a falling price
Rising ==
    [current_price |-> 100, sma_50 |-> <<90>>, sma_200 |-> <<80>>,
     rsi |-> 50, macd |-> 1, macd_signal |-> 0]

TechContents ==
    {Rising,
     [Rising EXCEPT !.sma_200 = <<>>],
     [Rising EXCEPT !.sma_50 = <<>>, !.sma_200 = <<>>, !.rsi = 65],
     [Rising EXCEPT !.rsi = 80, !.macd = -1],
     [current_price |-> 100, sma_50 |-> <<110>>, sma_200 |-> <<120>>,
      rsi |-> 20, macd |-> -1, macd_signal |-> 0]}

\* a fundamental snapshot of a sound company, and snapshots without
\* metrics, with some metrics and of a weak company
Sound ==
    [pe_ratio |-> <<15>>, pb_ratio |-> <<20>>, debt_to_equity |-> <<30>>,
     profit_margin |-> <<20>>]

FundContents ==
    {Sound,
     [pe_ratio |-> <<>>, pb_ratio |-> <<>>, debt_to_equity |-> <<>>,
      profit_margin |-> <<>>],
     [Sound EXCEPT !.pe_ratio = <<0>>, !.profit_margin = <<10>>],
     [Sound EXCEPT !.pe_ratio = <<25>>, !.pb_ratio = <<5>>,
                   !.debt_to_equity = <<70>>],
     [pe_ratio |-> <<60>>, pb_ratio |-> <<40>>, debt_to_equity |-> <<150>>,
      profit_margin |-> <<-5>>]}

\* line 210, 226 and 299: the payload of get can be used
UsableAlways(ret) == TRUE

Usable(ret) == ret = "json"

\* _get_or_fetch_technical, lines 196-209: the query; a hit returns, a miss
\* calls _fetch_price_history
TechLookup(t) ==
    /\ pc[t] = "tech_lookup"
    /\ LET fresh == FreshRows("technical", sym[t], now)
           rec == LookupRecord("technical", sym[t]) IN
         IF fresh # {}
         THEN /\ \E r \in Newest("technical", fresh) :
                   /\ technical' = [technical EXCEPT ![t] = r]
                   /\ hist' = Append(hist, Finished(rec, TRUE, "none", r,
                                  technical_indicators[r].calculated_at,
                                  technical_indicators[r].data))
              /\ pc' = [pc EXCEPT ![t] = "fund_lookup"]
              /\ UNCHANGED <<look, cont, attempt, getret, resps, pauses>>
         ELSE /\ look' = [look EXCEPT ![t] = rec]
              /\ GetStart(t, "candle")
              /\ UNCHANGED <<technical, hist>>
    /\ UNCHANGED <<now, nticks, nfault, lim, callers, apiVars, returned, eng, call_times, tnow, wake,
                   reqno, issued, stocks, technical_indicators,
                   fundamental_indicators, ratings, fred_key, macro_cache,
                   macro_cache_time, macro_made, entry, sym, fundamental,
                   analyst, macro_data, outcome, nreqs, mcall>>

\* lines 209-214 with _fetch_price_history and _compute_and_store_technical:
\* no usable candles raise ValueError, an error of get propagates, otherwise
\* the snapshot is stored with calculated_at = utcnow()
CandleDone(t) ==
    /\ pc[t] = "get_done"
    /\ cont[t] = "candle"
    /\ IF Usable(getret[t])
       THEN \E c \in lim.tech :
            LET row == [stock_id |-> sym[t], calculated_at |-> now,
                        data |-> <<t, reqno[t]>>, content |-> c]
                new == InsertRow(technical_indicators, row) IN
            /\ technical_indicators' = new
            /\ technical' = [technical EXCEPT ![t] = Len(new)]
            /\ hist' = Append(hist, Finished(look[t], FALSE, getret[t],
                                  Len(new), new[Len(new)].calculated_at,
                                  new[Len(new)].data))
            /\ pc' = [pc EXCEPT ![t] = "fund_lookup"]
       ELSE /\ hist' = Append(hist, Finished(look[t], FALSE, getret[t], 0, 0, <<>>))
            /\ pc' = [pc EXCEPT ![t] = "except"]
            /\ UNCHANGED <<technical_indicators, technical>>
    /\ UNCHANGED <<now, nticks, nfault, lim, callers, apiVars, returned, clientRest, stocks,
                   fundamental_indicators, ratings, fred_key, macro_cache,
                   macro_cache_time, macro_made, entry, sym, fundamental,
                   analyst, macro_data, outcome, nreqs, look, mcall>>

\* _get_or_fetch_fundamental, lines 283-296
FundLookup(t) ==
    /\ pc[t] = "fund_lookup"
    /\ LET fresh == FreshRows("fundamental", sym[t], now)
           rec == LookupRecord("fundamental", sym[t]) IN
         IF fresh # {}
         THEN /\ \E r \in Newest("fundamental", fresh) :
                   /\ fundamental' = [fundamental EXCEPT ![t] = r]
                   /\ hist' = Append(hist, Finished(rec, TRUE, "none", r,
                                  fundamental_indicators[r].fetched_at,
                                  fundamental_indicators[r].data))
              /\ pc' = [pc EXCEPT ![t] = "analyst"]
              /\ UNCHANGED <<look, cont, attempt, getret, resps, pauses>>
         ELSE /\ look' = [look EXCEPT ![t] = rec]
              /\ GetStart(t, "metric")
              /\ UNCHANGED <<fundamental, hist>>
    /\ UNCHANGED <<now, nticks, nfault, lim, callers, apiVars, returned, eng, call_times, tnow, wake,
                   reqno, issued, stocks, technical_indicators,
                   fundamental_indicators, ratings, fred_key, macro_cache,
                   macro_cache_time, macro_made, entry, sym, technical,
                   analyst, macro_data, outcome, nreqs, mcall>>

\* lines 296-328: no metrics raise ValueError, otherwise the snapshot is
\* stored with fetched_at = utcnow()
MetricDone(t) ==
    /\ pc[t] = "get_done"
    /\ cont[t] = "metric"
    /\ IF Usable(getret[t])
       THEN \E c \in lim.fund :
            LET row == [stock_id |-> sym[t], fetched_at |-> now,
                        data |-> <<t, reqno[t]>>, content |-> c]
                new == InsertRow(fundamental_indicators, row) IN
            /\ fundamental_indicators' = new
            /\ fundamental' = [fundamental EXCEPT ![t] = Len(new)]
            /\ hist' = Append(hist, Finished(look[t], FALSE, getret[t],
                                  Len(new), new[Len(new)].fetched_at,
                                  new[Len(new)].data))
            /\ pc' = [pc EXCEPT ![t] = "analyst"]
       ELSE /\ hist' = Append(hist, Finished(look[t], FALSE, getret[t], 0, 0, <<>>))
            /\ pc' = [pc EXCEPT ![t] = "except"]
            /\ UNCHANGED <<fundamental_indicators, fundamental>>
    /\ UNCHANGED <<now, nticks, nfault, lim, callers, apiVars, returned, clientRest, stocks,
                   technical_indicators, ratings, fred_key, macro_cache,
                   macro_cache_time, macro_made, entry, sym, technical,
                   analyst, macro_data, outcome, nreqs, look, mcall>>

\* ------------------------------------------------------------------------
\* Analyst and macro components
\* ------------------------------------------------------------------------
\* _get_analyst_score, line 335: the single recommendation call
AnalystCall(t) ==
    /\ pc[t] = "analyst"
    /\ GetStart(t, "recommendation")
    /\ UNCHANGED <<now, nticks, nfault, lim, callers, apiVars, ratingVars, eng, call_times,
                   tnow, wake, reqno, issued>>

\* the latest distribution of a recommendation payload
Counts(sb, b, h, s, ss) ==
    [strongBuy |-> sb, buy |-> b, hold |-> h, sell |-> s, strongSell |-> ss]

Recommendations ==
    {Counts(0, 0, 0, 0, 0), Counts(3, 0, 0, 0, 0), Counts(0, 0, 0, 0, 2),
     Counts(0, 1, 2, 0, 0), Counts(0, 0, 4, 0, 0), Counts(1, 2, 1, 1, 0)}

\* the score 5.0, as the fraction n/d of units of 0.00001
Neutral == [kind |-> "neutral", n |-> 5 * Point, d |-> 1]

\* a failed fetch scores 0
AnalystScoreZeroOnFailure(ret, latest) ==
    IF ret # "json" THEN [kind |-> "neutral", n |-> 0, d |-> 1]
    ELSE LET total == latest.strongBuy * 2 + latest.buy
                      - latest.sell - latest.strongSell * 2
             count == latest.strongBuy + latest.buy + latest.hold
                      + latest.sell + latest.strongSell IN
         IF count = 0 THEN Neutral
         ELSE LET n == 250000 * (total + 2 * count) IN
              IF n < 0 THEN [kind |-> "scored", n |-> 0, d |-> 1]
              ELSE IF n > 10 * Point * count
                   THEN [kind |-> "scored", n |-> 10 * Point, d |-> 1]
              ELSE [kind |-> "scored", n |-> n, d |-> count]

\* _get_analyst_score, lines 335-358: None and an empty payload are
\* replaced by [] and score 5.0, an exception of get is caught and scores
\* 5.0, a distribution without counts scores 5.0; otherwise
\* (total / count + 2) * 2.5, clamped to 0..10
AnalystScore(ret, latest) ==
    IF ret # "json" THEN Neutral
    ELSE LET total == latest.strongBuy * 2 + latest.buy
                      - latest.sell - latest.strongSell * 2
             count == latest.strongBuy + latest.buy + latest.hold
                      + latest.sell + latest.strongSell IN
         IF count = 0 THEN Neutral
         ELSE LET n == 250000 * (total + 2 * count) IN
              IF n < 0 THEN [kind |-> "scored", n |-> 0, d |-> 1]
              ELSE IF n > 10 * Point * count
                   THEN [kind |-> "scored", n |-> 10 * Point, d |-> 1]
              ELSE [kind |-> "scored", n |-> n, d |-> count]

NoAnalyst == [kind |-> "none", n |-> 0, d |-> 1, latest |-> <<>>]

RecDone(t) ==
    /\ pc[t] = "get_done"
    /\ cont[t] = "recommendation"
    /\ \E latest \in lim.recs :
          analyst' = [analyst EXCEPT ![t] =
                         [kind |-> AnalystScore(getret[t], latest).kind,
                          n |-> AnalystScore(getret[t], latest).n,
                          d |-> AnalystScore(getret[t], latest).d,
                          latest |-> IF getret[t] = "json" THEN <<latest>>
                                     ELSE <<>>]]
    /\ pc' = [pc EXCEPT ![t] = "macro"]
    /\ UNCHANGED <<now, nticks, nfault, lim, callers, apiVars, returned, clientRest, stocks,
                   technical_indicators, fundamental_indicators, ratings,
                   fred_key, macro_cache, macro_cache_time, macro_made, entry,
                   sym, technical, fundamental, macro_data, outcome, nreqs,
                   look, hist, mcall>>

\* _get_macro_score, lines 362-363: the cached object is still valid
\* a default result is not kept
MacroCacheValidUnlessDefault(e) ==
    /\ macro_cache[e] # 0
    /\ macro_made[macro_cache[e]].kind # "default"
    /\ now - macro_cache_time[e] < MacroTtlHours * Hour

MacroCacheValid(e) ==
    /\ macro_cache[e] # 0
    /\ now - macro_cache_time[e] < MacroTtlHours * Hour

\* ------------------------------------------------------------------------
\* MacroeconomicService: indicator values are in hundredths (2.5 % is 250),
\* scores in units of 0.00001 (9.0 is 900000), so that every product of the
\* code is an integer.  An Optional[float] is <<>> for None and <<v>>
\* for the value v.
\* ------------------------------------------------------------------------
\* self.series_ids: the seven series fetched; "inflation_rate" is the
\* indicator derived from the CPI series
Series == {"fed_funds_rate", "inflation_rate", "gdp_growth", "unemployment",
           "treasury_10y", "treasury_2y", "consumer_sentiment"}

\* self.optimal_ranges, (low, high)
OptimalRanges ==
    [fed_funds_rate |-> <<200, 400>>, inflation |-> <<150, 300>>,
     gdp_growth |-> <<200, 400>>, unemployment |-> <<350, 500>>,
     treasury_10y |-> <<300, 500>>, yield_curve |-> <<50, 200>>,
     consumer_sentiment |-> <<7500, 9500>>]

\* indicators.get(key)
Get(ind, key) == IF key \in DOMAIN ind THEN <<ind[key]>> ELSE <<>>

\* _fetch_latest_observation and _calculate_inflation_rate: an error of the
\* request, an empty observation list and the value "." all give None
FetchLatestObservation(a) == IF a.k = "value" THEN <<a.v>> ELSE <<>>

\* _fetch_all_indicators: the indicators that could be obtained
FetchAllIndicators(m) ==
    LET got == {s \in Series : FetchLatestObservation(m[s]) # <<>>} IN
    [s \in got |-> FetchLatestObservation(m[s])[1]]

\* line 438: rate = fed_funds if fed_funds else treasury_10y
Rate(fed_funds, treasury_10y) ==
    IF ~Falsy(fed_funds) THEN fed_funds[1] ELSE treasury_10y[1]

\* _score_interest_rates
ScoreInterestRates(fed_funds, treasury_10y) ==
    IF Falsy(fed_funds) /\ Falsy(treasury_10y) THEN 5 * Point
    ELSE LET rate == Rate(fed_funds, treasury_10y)
             optimal_low == OptimalRanges.fed_funds_rate[1]
             optimal_high == OptimalRanges.fed_funds_rate[2] IN
         IF rate < 100 THEN 7 * Point
         ELSE IF optimal_low <= rate /\ rate <= optimal_high THEN 9 * Point
         ELSE IF rate <= 600
              THEN Max2(4 * Point, 9 * Point - 500 * (rate - optimal_high))
         ELSE 3 * Point

\* _score_inflation
ScoreInflation(inflation_rate) ==
    IF Falsy(inflation_rate) THEN 5 * Point
    ELSE LET x == inflation_rate[1]
             optimal_low == OptimalRanges.inflation[1]
             optimal_high == OptimalRanges.inflation[2] IN
         IF x < 0 THEN 4 * Point
         ELSE IF optimal_low <= x /\ x <= optimal_high THEN 9 * Point
         ELSE IF x <= 500
              THEN Max2(5 * Point, 9 * Point - 1500 * (x - optimal_high))
         ELSE Max2(2 * Point, 10 * Point - 1000 * x)

\* _score_gdp_growth
ScoreGdpGrowth(gdp_growth) ==
    IF Falsy(gdp_growth) THEN 5 * Point
    ELSE LET g == gdp_growth[1]
             optimal_low == OptimalRanges.gdp_growth[1]
             optimal_high == OptimalRanges.gdp_growth[2] IN
         IF g < -200 THEN 2 * Point
         ELSE IF g < 0 THEN 4 * Point
         ELSE IF optimal_low <= g /\ g <= optimal_high THEN 9 * Point
         ELSE IF g <= 600 THEN 7 * Point
         ELSE 6 * Point

\* _score_unemployment
ScoreUnemployment(unemployment) ==
    IF Falsy(unemployment) THEN 5 * Point
    ELSE LET u == unemployment[1]
             optimal_low == OptimalRanges.unemployment[1]
             optimal_high == OptimalRanges.unemployment[2] IN
         IF u < 300 THEN 7 * Point
         ELSE IF optimal_low <= u /\ u <= optimal_high THEN 9 * Point
         ELSE IF u <= 700
              THEN Max2(4 * Point, 9 * Point - 1000 * (u - optimal_high))
         ELSE Max2(2 * Point, 12 * Point - 1000 * u)

\* _score_yield_curve
ScoreYieldCurve(treasury_10y, treasury_2y) ==
    IF Falsy(treasury_10y) \/ Falsy(treasury_2y) THEN 5 * Point
    ELSE LET spread == treasury_10y[1] - treasury_2y[1] IN
         IF spread < -50 THEN 2 * Point
         ELSE IF spread < 0 THEN 4 * Point
         ELSE IF 50 <= spread /\ spread <= 200 THEN 9 * Point
         ELSE IF spread <= 300 THEN 7 * Point
         ELSE 6 * Point

\* _score_consumer_sentiment
ScoreConsumerSentiment(sentiment) ==
    IF Falsy(sentiment) THEN 5 * Point
    ELSE LET s == sentiment[1]
             optimal_low == OptimalRanges.consumer_sentiment[1]
             optimal_high == OptimalRanges.consumer_sentiment[2] IN
         IF s < 6000 THEN 3 * Point
         ELSE IF s < 7000 THEN 5 * Point
         ELSE IF optimal_low <= s /\ s <= optimal_high THEN 9 * Point
         ELSE 8 * Point

\* round(x, 2) of the value n/d (in units of 0.00001), in hundredths; a
\* value half-way between two hundredths goes to either, as its binary
\* representation decides
Round2(n, d) ==
    LET u == 1000 * d
        q == n \div u
        r == n % u IN
    IF 2 * r < u THEN {q} ELSE IF 2 * r > u THEN {q + 1} ELSE {q, q + 1}

\* the names of the six component scores
Components == {"interest_rates", "inflation", "growth", "employment",
               "yield_curve", "sentiment"}

\* lines 89-96, in hundredths
Weights ==
    [interest_rates |-> 25, inflation |-> 25, growth |-> 20,
     employment |-> 10, yield_curve |-> 10, sentiment |-> 10]

\* lines 70-86: the six component scores of the indicators
ComponentScores(ind) ==
    [interest_rates |-> ScoreInterestRates(Get(ind, "fed_funds_rate"),
                                           Get(ind, "treasury_10y")),
     inflation |-> ScoreInflation(Get(ind, "inflation_rate")),
     growth |-> ScoreGdpGrowth(Get(ind, "gdp_growth")),
     employment |-> ScoreUnemployment(Get(ind, "unemployment")),
     yield_curve |-> ScoreYieldCurve(Get(ind, "treasury_10y"),
                                     Get(ind, "treasury_2y")),
     sentiment |-> ScoreConsumerSentiment(Get(ind, "consumer_sentiment"))]

\* lines 98-105: the weighted sum, times 100
WeightedSum(c) ==
    c.interest_rates * Weights.interest_rates + c.inflation * Weights.inflation
    + c.growth * Weights.growth + c.employment * Weights.employment
    + c.yield_curve * Weights.yield_curve + c.sentiment * Weights.sentiment

\* _generate_analysis, lines 588-595: the overall assessment
Assessment(n, d) ==
    IF n >= 8 * Point * d THEN "Favorable macroeconomic environment for stocks"
    ELSE IF n >= 6 * Point * d THEN "Moderately supportive macro conditions"
    ELSE IF n >= 4 * Point * d THEN "Mixed macroeconomic signals"
    ELSE "Challenging macro environment for equities"

\* only the inside of the range, without its two ends, is ideal
CategorizeBoundaryExclusive(value, optimal_range) ==
    LET low == optimal_range[1]
        high == optimal_range[2]
        width == Max2(high - low, 1) IN
    IF low < value /\ value < high THEN "ideal"
    ELSE IF 2 * low - width <= 2 * value /\ 2 * value <= 2 * high + width
         THEN "acceptable"
    ELSE IF value < low THEN "below-range"
    ELSE "above-range"

\* _categorize_against_optimal; width * 0.5 is compared after doubling
CategorizeAgainstOptimal(value, optimal_range) ==
    LET low == optimal_range[1]
        high == optimal_range[2]
        width == Max2(high - low, 1) IN
    IF low <= value /\ value <= high THEN "ideal"
    ELSE IF 2 * low - width <= 2 * value /\ 2 * value <= 2 * high + width
         THEN "acceptable"
    ELSE IF value < low THEN "below-range"
    ELSE "above-range"

\* _score_to_category
ScoreToCategory(score) ==
    IF score >= 8 * Point THEN "very strong"
    ELSE IF score >= 6 * Point THEN "favorable"
    ELSE IF score >= 4 * Point THEN "neutral"
    ELSE IF score >= 2 * Point THEN "caution"
    ELSE "weak"

\* _generate_indicator_context, lines 652-656: the spread is added to the
\* indicators when both yields are there
WithSpread(ind) ==
    IF {"treasury_10y", "treasury_2y"} \subseteq DOMAIN ind
    THEN [k \in DOMAIN ind \cup {"yield_curve_spread"} |->
             IF k = "yield_curve_spread"
             THEN ind["treasury_10y"] - ind["treasury_2y"]
             ELSE ind[k]]
    ELSE ind

\* lines 640-647 and 656: the optimal range an indicator is compared with;
\* the 2-year yield has none
ContextRange(key) ==
    IF key = "inflation_rate" THEN <<OptimalRanges.inflation>>
    ELSE IF key = "yield_curve_spread" THEN <<OptimalRanges.yield_curve>>
    ELSE IF key = "treasury_2y" THEN <<>>
    ELSE <<OptimalRanges[key]>>

\* lines 658-676: the category of every indicator
IndicatorContext(ind, c) ==
    [k \in DOMAIN ind |->
        IF ContextRange(k) # <<>>
        THEN CategorizeAgainstOptimal(ind[k], ContextRange(k)[1])
        ELSE ScoreToCategory(c.interest_rates)]

EmptyDict == [k \in {} |-> 0]

\* _get_default_score
DefaultScore ==
    [macro_score |-> 500, components |-> [k \in Components |-> 500],
     indicators |-> EmptyDict, indicator_context |-> EmptyDict,
     analysis |-> "Macro score unavailable (FRED API key not configured)",
     data_source |-> "default"]

\* the credential test never fails
NoCredentialIgnored(key) == FALSE

\* line 60: if not self.api_key
NoCredential(key) == ~key

\* every set of indicators counts as obtained
HasIndicatorsAlways(ind) == TRUE

\* line 66: if not indicators
HasIndicators(ind) == DOMAIN ind # {}

\* the series requested from the provider by one calculate_macro_score
Asked(key) == IF NoCredential(key) THEN {} ELSE Series

\* calculate_macro_score with credential key when the provider answers m:
\* the results it can return.  The failures of a request are caught where
\* the request is made (lines 263-265, 326-328) and the scoring of numbers
\* raises nothing, so the handler of lines 151-153 is not entered.
CalculateMacroScore(key, m) ==
    IF NoCredential(key) THEN {DefaultScore}
    ELSE LET ind == FetchAllIndicators(m) IN
         IF ~HasIndicators(ind) THEN {DefaultScore}
         ELSE LET c == ComponentScores(ind)
                  all == WithSpread(ind) IN
              {[macro_score |-> ms,
                components |->
                    [interest_rates |-> c1, inflation |-> c2, growth |-> c3,
                     employment |-> c4, yield_curve |-> c5, sentiment |-> c6],
                indicators |-> all,
                indicator_context |-> IndicatorContext(all, c),
                analysis |-> Assessment(WeightedSum(c), 100),
                data_source |-> "FRED"] :
                  ms \in Round2(WeightedSum(c), 100),
                  c1 \in Round2(c.interest_rates, 1),
                  c2 \in Round2(c.inflation, 1),
                  c3 \in Round2(c.growth, 1),
                  c4 \in Round2(c.employment, 1),
                  c5 \in Round2(c.yield_curve, 1),
                  c6 \in Round2(c.sentiment, 1)}

\* what the provider does with the request for one series
Value(v) == [k |-> "value", v |-> v]
Failures == {[k |-> "error"], [k |-> "empty"], [k |-> "dot"]}

\* every series inside its optimal range
Typical ==
    [fed_funds_rate |-> Value(300), inflation_rate |-> Value(200),
     gdp_growth |-> Value(300), unemployment |-> Value(400),
     treasury_10y |-> Value(400), treasury_2y |-> Value(300),
     consumer_sentiment |-> Value(8000)]

\* every request fails
NoData == [s \in Series |-> [k |-> "error"]]

MacroAnswers == {Typical, NoData}

\* values on and around the breakpoints of the score tables and of the
\* optimal ranges
Grid ==
    [fed_funds_rate |-> {0, 50, 100, 150, 200, 300, 400, 500, 510, 600, 700},
     inflation_rate |-> {-100, 0, 10, 70, 75, 100, 150, 300, 375, 380, 500, 600, 900},
     gdp_growth |-> {-300, -200, -100, 0, 90, 100, 200, 400, 500, 510, 600, 700},
     unemployment |-> {0, 200, 270, 275, 300, 320, 350, 500, 575, 580, 700, 800, 1100},
     treasury_10y |-> {0, 50, 190, 200, 300, 500, 600, 610, 700},
     treasury_2y |-> {0, 50, 120, 125, 200, 350, 400, 425, 430, 460},
     consumer_sentiment |-> {0, 5000, 6000, 6400, 6500, 7000, 7200, 7500, 9500,
                             10500, 10600}]

\* one series varies, the others are typical
SweepOf(s) ==
    {[Typical EXCEPT ![s] = a] : a \in Failures \cup {Value(v) : v \in Grid[s]}}

\* the fed funds rate is missing or zero while the 10-year yield varies,
\* and the 10-year yield is missing or zero while the 2-year yield varies
PairSweep ==
    {[Typical EXCEPT !["fed_funds_rate"] = a, !["treasury_10y"] = b] :
        a \in {[k |-> "error"], Value(0)},
        b \in {[k |-> "error"]} \cup {Value(v) : v \in Grid["treasury_10y"]}}
    \cup
    {[Typical EXCEPT !["treasury_10y"] = a, !["treasury_2y"] = b] :
        a \in {[k |-> "error"], Value(0)},
        b \in {[k |-> "error"]} \cup {Value(v) : v \in Grid["treasury_2y"]}}

\* every series either fails or sits just inside the lower cut-off of its
\* score table
Low ==
    [fed_funds_rate |-> Value(100), inflation_rate |-> Value(10),
     gdp_growth |-> Value(300), unemployment |-> Value(300),
     treasury_10y |-> Value(400), treasury_2y |-> Value(300),
     consumer_sentiment |-> Value(8000)]

Corners ==
    {[s \in Series |-> IF s \in S THEN Low[s] ELSE [k |-> "error"]] :
        S \in SUBSET Series}

\* both treasury yields vary, zero included: spreads on both sides of
\* every breakpoint of _score_yield_curve
CurveSweep ==
    {[Typical EXCEPT !["treasury_10y"] = Value(a), !["treasury_2y"] = Value(b)] :
        a \in {0, 100, 200, 400}, b \in {0, 50, 150, 300, 350, 450}}

MacroSweep ==
    UNION {SweepOf(s) : s \in Series} \cup PairSweep \cup Corners \cup CurveSweep

\* the object a calculate_macro_score call made, with what it asked of
\* the provider and what it obtained
MacroObject(m, r) ==
    [kind |-> r.data_source, at |-> now, key |-> fred_key,
     asked |-> Asked(fred_key),
     obtained |-> IF NoCredential(fred_key) THEN EmptyDict
                  ELSE FetchAllIndicators(m),
     result |-> r]

\* calculate_macro_score called on its own
MacroScoreCall(m) ==
    /\ Len(macro_made) < lim.requests
    /\ \E r \in CalculateMacroScore(fred_key, m) :
          macro_made' = Append(macro_made, MacroObject(m, r))
    /\ UNCHANGED <<now, nticks, nfault, lim, callers, apiVars, returned, clientVars, stocks,
                   technical_indicators, fundamental_indicators, ratings,
                   fred_key, macro_cache, macro_cache_time, entry, sym,
                   technical, fundamental, analyst, macro_data, outcome,
                   nreqs, look, hist, mcall>>

\* _get_macro_score, lines 360-369
GetMacroScore(t, m) ==
    /\ pc[t] = "macro"
    /\ LET e == eng[t] IN
         IF MacroCacheValid(e)
         THEN /\ macro_data' = [macro_data EXCEPT ![t] = macro_cache[e]]
              /\ mcall' = [mcall EXCEPT ![t] =
                             [at |-> now, fetched |-> FALSE,
                              prior |-> Len(macro_made)]]
              /\ UNCHANGED <<macro_cache, macro_cache_time, macro_made>>
         ELSE /\ \E r \in CalculateMacroScore(fred_key, m) :
                    macro_made' = Append(macro_made, MacroObject(m, r))
              /\ macro_cache' = [macro_cache EXCEPT ![e] = Len(macro_made) + 1]
              /\ macro_cache_time' = [macro_cache_time EXCEPT ![e] = now]
              /\ macro_data' = [macro_data EXCEPT ![t] = Len(macro_made) + 1]
              /\ mcall' = [mcall EXCEPT ![t] =
                             [at |-> now, fetched |-> fred_key,
                              prior |-> Len(macro_made)]]
    /\ pc' = [pc EXCEPT ![t] = "l118"]
    /\ UNCHANGED <<now, nticks, nfault, lim, callers, apiVars, returned, clientRest, stocks,
                   technical_indicators, fundamental_indicators, ratings,
                   fred_key, entry, sym, technical, fundamental, analyst,
                   outcome, nreqs, look, hist>>

\* ------------------------------------------------------------------------
\* calculate_rating and calculate_and_store_rating
\* ------------------------------------------------------------------------
\* a call is over: its record joins the history, in the behaviours that
\* keep one
Finish(h, r) == IF lim.history THEN h \cup {r} ELSE h

\* the sessions: the one instance e was built with, the one the caller
\* passes to request n, the one SessionLocal() opens for request n, and the
\* one get_db gives the api request of thread t
OwnSession(e) == e
CallerSession(n) == 10 + n
OpenedSession(n) == 20 + n
RequestSession(t) == 30 + t

\* line 99: db = db or self.db or SessionLocal()
SessionInUse(arg, own, n) ==
    IF arg # 0 THEN arg ELSE IF own # 0 THEN own ELSE OpenedSession(n)

\* the argument db of calculate_rating: None, the session of the instance,
\* or a session of the caller
SessionArgument(a, own, n) ==
    CASE a = "none" -> 0
      [] a = "own" -> own
      [] a = "other" -> CallerSession(n)

ShouldCloseAlways(d, own) == TRUE

\* line 152: if db is not self.db
ShouldClose(d, own) == d # own

\* lines 151-153: the finally clause, taken on the way out of the try
\* whether it returned or caught
Finally(t, how) ==
    /\ closed' = IF ShouldClose(db[t], self_db[eng[t]])
                 THEN closed \cup {db[t]}
                 ELSE closed
    /\ exits' = Finish(exits,
           [caller |-> t, n |-> nreqs, how |-> how, db |-> db[t],
            own |-> self_db[eng[t]], symbol |-> sym[t], cont |-> cont[t],
            technical |-> technical[t], lookups |-> Len(hist)])
    /\ UNCHANGED <<self_db, db>>

\* RatingService.__init__, lines 71-80: a new client with an empty window
\* and an empty macro cache; app/services/rating.py line 15 builds it with
\* the session of the request
NewService(t) ==
    /\ self_db' = [self_db EXCEPT ![t] = RequestSession(t)]
    /\ eng' = [eng EXCEPT ![t] = t]
    /\ call_times' = [call_times EXCEPT ![t] = <<>>]
    /\ macro_cache' = [macro_cache EXCEPT ![t] = 0]
    /\ macro_cache_time' = [macro_cache_time EXCEPT ![t] = 0]

\* the locals of calculate_rating at its entry
EnterRating(t, s, en) ==
    /\ entry' = [entry EXCEPT ![t] = en]
    /\ sym' = [sym EXCEPT ![t] = s]
    /\ technical' = [technical EXCEPT ![t] = 0]
    /\ fundamental' = [fundamental EXCEPT ![t] = 0]
    /\ analyst' = [analyst EXCEPT ![t] = NoAnalyst]
    /\ macro_data' = [macro_data EXCEPT ![t] = 0]
    /\ outcome' = [outcome EXCEPT ![t] = "running"]
    /\ nreqs' = nreqs + 1

\* app/services/rating.py lines 10-16: 404 for an unknown stock, otherwise a
\* RatingService is built for this request and calculate_rating is called
CalculateAndStoreRating(t, s) ==
    /\ pc[t] = "idle"
    /\ nreqs < lim.requests
    /\ IF s \notin stocks
       THEN /\ outcome' = [outcome EXCEPT ![t] = "404"]
            /\ nreqs' = nreqs + 1
            /\ UNCHANGED <<pc, eng, call_times, macro_cache, macro_cache_time,
                           entry, sym, technical, fundamental, analyst,
                           macro_data, self_db, db>>
       ELSE /\ NewService(t)
            /\ EnterRating(t, s, "api")
            /\ db' = [db EXCEPT ![t] = SessionInUse(RequestSession(t),
                                                    RequestSession(t),
                                                    nreqs + 1)]
            /\ pc' = [pc EXCEPT ![t] = "l101"]
    /\ UNCHANGED <<now, nticks, nfault, lim, callers, apiRest, closed, exits,
                   returned, cont, attempt, tnow, wake,
                   getret, reqno, issued, resps, pauses, stocks,
                   technical_indicators, fundamental_indicators, ratings,
                   fred_key, macro_made, look, hist, mcall>>

\* _get_or_create_stock, lines 177-181: a known symbol is returned, an
\* unknown one is looked up with get_stock_info
GetOrCreateStock(t) ==
    /\ pc[t] = "l101"
    /\ IF sym[t] \in stocks
       THEN /\ pc' = [pc EXCEPT ![t] = "tech_lookup"]
            /\ UNCHANGED <<cont, attempt, getret, resps, pauses>>
       ELSE GetStart(t, "profile")
    /\ UNCHANGED <<now, nticks, nfault, lim, callers, apiVars, ratingVars, eng, call_times,
                   tnow, wake, reqno, issued>>

\* get_stock_info, lines 155-173, and _get_or_create_stock, lines 181-191:
\* every failure of get is caught and gives None; the Stock row is then
\* added, which the unique symbol index refuses when the row exists
GetStockInfo(ret, symbol) ==
    IF ret = "json" THEN <<[symbol |-> symbol]>> ELSE <<>>

ProfileDone(t) ==
    /\ pc[t] = "get_done"
    /\ cont[t] = "profile"
    /\ returned' = Finish(returned,
           [op |-> "get_stock_info", caller |-> t, symbol |-> sym[t],
            value |-> GetStockInfo(getret[t], sym[t]), scores |-> <<>>,
            latest |-> <<>>, snapshots |-> <<>>,
            cause |-> <<[cont |-> cont[t], ret |-> getret[t],
                         resps |-> resps[t]]>>])
    /\ IF sym[t] \in stocks
       THEN /\ pc' = [pc EXCEPT ![t] = "except"]
            /\ UNCHANGED stocks
       ELSE /\ stocks' = stocks \cup {sym[t]}
            /\ pc' = [pc EXCEPT ![t] = "tech_lookup"]
    /\ UNCHANGED <<now, nticks, nfault, lim, callers, apiVars, clientRest,
                   technical_indicators, fundamental_indicators, ratings,
                   fred_key, macro_cache, macro_cache_time, macro_made, entry,
                   sym, technical, fundamental, analyst, macro_data, outcome,
                   nreqs, look, hist, mcall>>

\* calculate_rating called on a RatingService that is kept between calls
CalculateRating(t, s) ==
    /\ pc[t] = "idle"
    /\ nreqs < lim.requests
    /\ EnterRating(t, s, "direct")
    /\ \E a \in lim.dbs :
          LET own == self_db[eng[t]]
              n == nreqs + 1
          IN  db' = [db EXCEPT ![t] =
                        SessionInUse(SessionArgument(a, own, n), own, n)]
    /\ pc' = [pc EXCEPT ![t] = "l101"]
    /\ UNCHANGED <<now, nticks, nfault, lim, callers, apiRest, self_db, closed,
                   exits,
                   returned, clientRest, stocks,
                   technical_indicators, fundamental_indicators, ratings,
                   fred_key, macro_cache, macro_cache_time, macro_made, look,
                   hist, mcall>>

\* lines 105-116: the four component scores of the running request; the
\* analyst score is the fraction n/d, the macro score is in hundredths
ScoresOf(t) ==
    [technical |->
         CalculateTechnicalScore(technical_indicators[technical[t]].content),
     fundamental |->
         CalculateFundamentalScore(fundamental_indicators[fundamental[t]].content),
     analyst |-> [n |-> analyst[t].n, d |-> analyst[t].d],
     macro |-> macro_made[macro_data[t]].result.macro_score]

\* lines 118-123 with the weights of lines 82-87: four times the overall
\* rating, as a fraction over d
OverallTimes4(sc) ==
    (sc.technical + sc.fundamental + 1000 * sc.macro) * sc.analyst.d
    + sc.analyst.n

\* lines 125-147: the dictionaries calculate_rating can return
Results(sc) ==
    {[overall_rating |-> o, technical_score |-> a, analyst_score |-> b,
      fundamental_score |-> c, macro_score |-> m] :
        o \in Round2(OverallTimes4(sc), 4 * sc.analyst.d),
        a \in Round2(sc.technical, 1),
        b \in Round2(sc.analyst.n, sc.analyst.d),
        c \in Round2(sc.fundamental, 1),
        m \in Round2(1000 * sc.macro, 1)}

\* lines 118-147: the result; rating.py lines 20-30 store it as a Rating
ReturnRating(t) ==
    /\ pc[t] = "l118"
    /\ outcome' = [outcome EXCEPT ![t] = "rating"]
    /\ \E r \in Results(ScoresOf(t)) :
          /\ returned' = Finish(returned,
                 [op |-> "calculate_rating", caller |-> t, symbol |-> sym[t],
                  value |-> <<r>>, scores |-> <<ScoresOf(t)>>,
                  latest |-> analyst[t].latest,
                  snapshots |->
                      <<technical_indicators[technical[t]].content,
                        fundamental_indicators[fundamental[t]].content>>,
                  cause |-> <<[cont |-> cont[t], ret |-> getret[t],
                               resps |-> resps[t]]>>])
          /\ ratings' = IF entry[t] = "api"
                        THEN Append(ratings, [stock_id |-> sym[t]])
                        ELSE ratings
    /\ Finally(t, "rating")
    /\ pc' = [pc EXCEPT ![t] = "idle"]
    /\ UNCHANGED <<now, nticks, nfault, lim, callers, apiRest, clientRest, stocks,
                   technical_indicators, fundamental_indicators, fred_key,
                   macro_cache, macro_cache_time, macro_made, entry, sym,
                   technical, fundamental, analyst, macro_data, nreqs, look,
                   hist, mcall>>

\* the exception leaves calculate_rating
RatingUnavailableUncaught(t) ==
    /\ pc[t] = "except"
    /\ outcome' = [outcome EXCEPT ![t] = "raised"]
    /\ returned' = Finish(returned,
           [op |-> "calculate_rating", caller |-> t, symbol |-> sym[t],
            value |-> <<>>, scores |-> <<>>, latest |-> <<>>,
            snapshots |-> <<>>,
            cause |-> <<[cont |-> cont[t], ret |-> getret[t],
                         resps |-> resps[t]]>>])
    /\ Finally(t, "raised")
    /\ pc' = [pc EXCEPT ![t] = "idle"]
    /\ UNCHANGED <<now, nticks, nfault, lim, callers, apiRest, clientRest, stocks,
                   technical_indicators, fundamental_indicators, ratings,
                   fred_key, macro_cache, macro_cache_time, macro_made, entry,
                   sym, technical, fundamental, analyst, macro_data, nreqs,
                   look, hist, mcall>>

\* the handler undoes what the request had stored: the snapshot it got is
\* deleted when it is the last one stored
RatingUnavailableRollback(t) ==
    /\ pc[t] = "except"
    /\ outcome' = [outcome EXCEPT ![t] = "unavailable"]
    /\ returned' = Finish(returned,
           [op |-> "calculate_rating", caller |-> t, symbol |-> sym[t],
            value |-> <<>>, scores |-> <<>>, latest |-> <<>>,
            snapshots |-> <<>>,
            cause |-> <<[cont |-> cont[t], ret |-> getret[t],
                         resps |-> resps[t]]>>])
    /\ Finally(t, "unavailable")
    /\ technical_indicators' =
           IF technical[t] # 0 /\ technical[t] = Len(technical_indicators)
           THEN SubSeq(technical_indicators, 1, technical[t] - 1)
           ELSE technical_indicators
    /\ pc' = [pc EXCEPT ![t] = "idle"]
    /\ UNCHANGED <<now, nticks, nfault, lim, callers, apiRest, clientRest, stocks,
                   fundamental_indicators, ratings,
                   fred_key, macro_cache, macro_cache_time, macro_made, entry,
                   sym, technical, fundamental, analyst, macro_data, nreqs,
                   look, hist, mcall>>

\* lines 148-150: every exception becomes None, whatever raised it;
\* rating.py lines 17-18 turn None into status 503
RatingUnavailable(t) ==
    /\ pc[t] = "except"
    /\ outcome' = [outcome EXCEPT ![t] = "unavailable"]
    /\ returned' = Finish(returned,
           [op |-> "calculate_rating", caller |-> t, symbol |-> sym[t],
            value |-> <<>>, scores |-> <<>>, latest |-> <<>>,
            snapshots |-> <<>>,
            cause |-> <<[cont |-> cont[t], ret |-> getret[t],
                         resps |-> resps[t]]>>])
    /\ Finally(t, "unavailable")
    /\ pc' = [pc EXCEPT ![t] = "idle"]
    /\ UNCHANGED <<now, nticks, nfault, lim, callers, apiRest, clientRest, stocks,
                   technical_indicators, fundamental_indicators, ratings,
                   fred_key, macro_cache, macro_cache_time, macro_made, entry,
                   sym, technical, fundamental, analyst, macro_data, nreqs,
                   look, hist, mcall>>

\* ------------------------------------------------------------------------
\* Callers of one shared client: QuoteService keeps one FinnhubClient for
\* the process and calls get on it from every request
\* ------------------------------------------------------------------------
CallGet(t) ==
    /\ pc[t] = "idle"
    /\ GetStart(t, "quote")
    /\ UNCHANGED <<now, nticks, nfault, lim, callers, apiVars, ratingVars, eng, reqno, call_times, tnow, wake, issued>>

ReturnGet(t) ==
    /\ pc[t] = "get_done"
    /\ cont[t] = "quote"
    /\ pc' = [pc EXCEPT ![t] = "idle"]
    /\ UNCHANGED <<now, nticks, nfault, lim, callers, apiVars, ratingVars, eng, reqno, call_times, cont, attempt, tnow,
                   wake, getret, issued, resps, pauses>>

\* an empty database but for the Stock rows, no macro object yet
\* ------------------------------------------------------------------------
\* app/utils/rate_limiter.py: the limiters of incoming requests
\* ------------------------------------------------------------------------
\* client addresses
Ips == {"10.0.0.1", "10.0.0.2"}
\* max_requests, scaled down from 60
MaxRequestsPerIp == 2
\* window_seconds, lines 29 and 55
LimiterWindowSeconds == 60
LimiterWindow == LimiterWindowSeconds * TicksPerSecond

\* lines 67-68: hits older than the window leave it from the left
RECURSIVE DropExpired(_, _)
DropExpired(window, n) ==
    IF window # <<>> /\ n - window[1] > LimiterWindow
    THEN DropExpired(Tail(window), n)
    ELSE window

\* a full window also refuses after its oldest hit has left it
IsFullNever(window) == FALSE
\* line 69
IsFull(window) == Len(window) >= MaxRequestsPerIp

\* InMemoryRateLimiter.__call__, lines 61-71.  The lock is never contended,
\* since nothing is awaited while it is held, so acquiring it does not
\* suspend the coroutine and the call runs in one step of the event loop.
InMemoryCall(ip) ==
    /\ Len(limited) < lim.requests
    /\ LET window == DropExpired(hits[ip], now)
           after == IF IsFull(window) THEN window ELSE Append(window, now) IN
         /\ hits' = [hits EXCEPT ![ip] = after]
         /\ limited' = Append(limited,
                [ip |-> ip, at |-> now,
                 status |-> IF IsFull(window) THEN 429 ELSE 200,
                 state |-> after])
    /\ UNCHANGED <<now, nticks, nfault, lim, callers, redis, releaseVars,
                   sessionVars, snapshotVars, ratingVars, clientVars>>

\* the counter of a key: an expired key is gone
Current(key, n) == IF n < key.expire THEN key.count ELSE 0

\* a rejected request leaves the key as it was
RedisAfterKeepRejected(key, n) ==
    IF Current(key, n) + 1 > MaxRequestsPerIp /\ n < key.expire
    THEN key
    ELSE [count |-> Current(key, n) + 1, expire |-> n + LimiterWindow]
\* lines 40-43: INCR and EXPIRE, executed together
RedisAfter(key, n) ==
    [count |-> Current(key, n) + 1, expire |-> n + LimiterWindow]

\* RedisRateLimiter.__call__, lines 37-45
RedisCall(ip) ==
    /\ Len(limited) < lim.requests
    /\ LET after == RedisAfter(redis[ip], now) IN
         /\ redis' = [redis EXCEPT ![ip] = after]
         /\ limited' = Append(limited,
                [ip |-> ip, at |-> now,
                 status |-> IF after.count > MaxRequestsPerIp THEN 429 ELSE 200,
                 state |-> after])
    /\ UNCHANGED <<now, nticks, nfault, lim, callers, hits, releaseVars,
                   sessionVars, snapshotVars, ratingVars, clientVars>>

\* ------------------------------------------------------------------------
\* MacroeconomicService._get_next_release_date
\* ------------------------------------------------------------------------
\* indicator keys of series_ids, lines 25-33
ReleaseKeys == {"fed_funds_rate", "inflation_cpi"}

\* what the provider answers to the series/release request: an error, no
\* release, or a release
ReleaseAnswers == {"error", "none", "id"}
\* what it answers to the release/dates request: an error, no date from
\* today on, or the earliest such date
DateAnswers == {"error", "none", "2026-11-13", "2026-12-11"}

\* the cache is never consulted
ReleaseCacheHitNever(cached) == FALSE
\* lines 354-356
ReleaseCacheHit(cached) == cached # <<>> /\ cached[1].next_release # <<>>

\* lines 353-425: the requests made, the value returned (<<>> for None) and
\* the cache entry left behind
NextReleaseDate(cached, ra, da) ==
    IF ReleaseCacheHit(cached)
    THEN [requests |-> <<>>, result |-> cached[1].next_release,
          cache |-> cached]
    ELSE LET known == cached # <<>>
             first == IF known THEN <<>> ELSE <<"series/release">>
             release_id == IF known THEN cached[1].release_id
                           ELSE IF ra = "id" THEN <<1>> ELSE <<>> IN
         IF release_id = <<>>
         THEN [requests |-> first, result |-> <<>>, cache |-> cached]
         ELSE IF da = "error"
         THEN [requests |-> Append(first, "release/dates"), result |-> <<>>,
               cache |-> cached]
         ELSE LET next_release == IF da = "none" THEN <<>> ELSE <<da>> IN
              [requests |-> Append(first, "release/dates"),
               result |-> next_release,
               cache |-> <<[release_id |-> release_id,
                            next_release |-> next_release]>>]

GetNextReleaseDate(k, ra, da) ==
    /\ Len(releases) < lim.requests
    /\ LET r == NextReleaseDate(release_cache[k], ra, da) IN
         /\ release_cache' = [release_cache EXCEPT ![k] = r.cache]
         /\ releases' = Append(releases,
                [key |-> k, requests |-> r.requests, result |-> r.result])
    /\ UNCHANGED <<now, nticks, nfault, lim, callers, limiterVars, sessionVars,
                   snapshotVars, ratingVars, clientVars>>

\* lines 58, 32 and 47: no hits, no keys, no release looked up
InitApi(own) ==
    /\ hits = [ip \in Ips |-> <<>>]
    /\ redis = [ip \in Ips |-> [count |-> 0, expire |-> 0]]
    /\ limited = <<>>
    /\ release_cache = [k \in ReleaseKeys |-> <<>>]
    /\ releases = <<>>
    /\ self_db = [e \in Threads |-> IF own THEN OwnSession(e) ELSE 0]
    /\ db = [t \in Threads |-> 0]
    /\ closed = {}
    /\ exits = {}
    /\ macro_snapshots = <<>>
    /\ mpc = [t \in Threads |-> "idle"]
    /\ served = <<>>

\* a RatingService built with the session `own` names, __init__ line 71
InitService(stk, key, own) ==
    /\ stocks = stk
    /\ technical_indicators = <<>>
    /\ fundamental_indicators = <<>>
    /\ ratings = <<>>
    /\ fred_key = key
    /\ macro_cache = [e \in Threads |-> 0]
    /\ macro_cache_time = [e \in Threads |-> 0]
    /\ macro_made = <<>>
    /\ entry = [t \in Threads |-> "none"]
    /\ sym = [t \in Threads |-> "none"]
    /\ technical = [t \in Threads |-> 0]
    /\ fundamental = [t \in Threads |-> 0]
    /\ analyst = [t \in Threads |-> NoAnalyst]
    /\ macro_data = [t \in Threads |-> 0]
    /\ outcome = [t \in Threads |-> "none"]
    /\ nreqs = 0
    /\ look = [t \in Threads |-> [kind |-> "none"]]
    /\ hist = <<>>
    /\ returned = {}
    /\ mcall = [t \in Threads |-> [at |-> 0, fetched |-> FALSE, prior |-> 0]]
    /\ InitApi(own)

\* a RatingService built without a session, as its callers outside the api do
InitRating(stk, key) == InitService(stk, key, FALSE)

InitClient(cs, l) ==
    /\ InitRating({}, FALSE)
    /\ now = 0
    /\ nticks = 0
    /\ nfault = 0
    /\ lim = l
    /\ callers = cs
    /\ eng = [t \in Threads |-> 1]
    /\ call_times = [e \in Threads |-> <<>>]
    /\ pc = [t \in Threads |-> "idle"]
    /\ cont = [t \in Threads |-> "none"]
    /\ attempt = [t \in Threads |-> 0]
    /\ tnow = [t \in Threads |-> 0]
    /\ wake = [t \in Threads |-> 0]
    /\ getret = [t \in Threads |-> "none"]
    /\ reqno = [t \in Threads |-> 0]
    /\ issued = <<>>
    /\ resps = [t \in Threads |-> <<>>]
    /\ pauses = [t \in Threads |-> <<>>]

NextClient ==
    \/ \E d \in lim.deltas : Tick(d)
    \/ \E t \in callers : CallGet(t)
    \/ \E t \in callers : L38(t)
    \/ \E t \in callers : L40(t)
    \/ \E t \in callers : L41(t)
    \/ \E t \in callers : L42(t)
    \/ \E t \in callers : L43(t)
    \/ \E t \in callers : L44(t)
    \/ \E t \in callers : L45(t)
    \/ \E t \in callers, status \in lim.resp : L53(t, status)
    \/ \E t \in callers : L56(t)
    \/ \E t \in callers : ReturnGet(t)

\* one caller at a time on one client
\* the budgets and input sets of a behaviour of client calls
ClientLim(ni, nt, nf) ==
    [issued |-> ni, ticks |-> nt, faults |-> nf, requests |-> 0,
     resp |-> Responses, deltas |-> ClientDeltas, readers |-> ClockReaders,
     syms |-> {}, macro |-> {}, tech |-> {}, fund |-> {}, recs |-> {}, history |-> FALSE, dbs |-> {"none"}]

InitOne == InitClient({1}, ClientLim(MaxIssued, MaxTicks, MaxFaults))
SpecOne == InitOne /\ [][NextClient]_vars

\* every thread of the pool calls the same client
InitShared ==
    InitClient(Threads, ClientLim(MaxIssuedShared, MaxTicksShared, MaxFaultsShared))
SpecShared == InitShared /\ [][NextClient]_vars

\* ------------------------------------------------------------------------
\* Rating requests
\* ------------------------------------------------------------------------
\* rating requests in one behaviour
MaxRequests == 2
\* provider requests and clock advances in one behaviour of rating requests
MaxIssuedRating == 7
MaxTicksRating == 2
\* answers other than a usable payload in one behaviour of rating requests
MaxFaultsRating == 1

\* 0.05 s, and the three TTLs: 1 h, 6 h, 24 h
RatingDeltas == {1, MacroTtlHours * Hour, TechnicalTtlHours * Hour,
                 FundamentalTtlHours * Hour}

\* positions of RatingService whose next step reads the clock
RatingClockReaders == {"tech_lookup", "fund_lookup", "macro"}

InitRequests(cs, l) ==
    /\ InitRating(Symbols, TRUE)
    /\ now = 0
    /\ nticks = 0
    /\ nfault = 0
    /\ lim = l
    /\ callers = cs
    /\ eng = [t \in Threads |-> t]
    /\ call_times = [e \in Threads |-> <<>>]
    /\ pc = [t \in Threads |-> "idle"]
    /\ cont = [t \in Threads |-> "none"]
    /\ attempt = [t \in Threads |-> 0]
    /\ tnow = [t \in Threads |-> 0]
    /\ wake = [t \in Threads |-> 0]
    /\ getret = [t \in Threads |-> "none"]
    /\ reqno = [t \in Threads |-> 0]
    /\ issued = <<>>
    /\ resps = [t \in Threads |-> <<>>]
    /\ pauses = [t \in Threads |-> <<>>]

NextRating ==
    \/ \E d \in lim.deltas : Tick(d)
    \/ \E t \in callers, s \in lim.syms : CalculateAndStoreRating(t, s)
    \/ \E t \in callers : GetOrCreateStock(t)
    \/ \E t \in callers : TechLookup(t)
    \/ \E t \in callers : CandleDone(t)
    \/ \E t \in callers : FundLookup(t)
    \/ \E t \in callers : MetricDone(t)
    \/ \E t \in callers : AnalystCall(t)
    \/ \E t \in callers : RecDone(t)
    \/ \E t \in callers, m \in lim.macro : GetMacroScore(t, m)
    \/ \E t \in callers : ReturnRating(t)
    \/ \E t \in callers : RatingUnavailable(t)
    \/ \E t \in callers : L38(t)
    \/ \E t \in callers : L40(t)
    \/ \E t \in callers : L41(t)
    \/ \E t \in callers : L42(t)
    \/ \E t \in callers : L43(t)
    \/ \E t \in callers : L44(t)
    \/ \E t \in callers : L45(t)
    \/ \E t \in callers, status \in lim.resp : L53(t, status)
    \/ \E t \in callers : L56(t)

\* Rating requests one after the other, for two subjects, an hour apart at
\* most.
InitSeq ==
    InitRequests({1},
        [issued |-> MaxIssuedRating, ticks |-> MaxTicksRating,
         faults |-> MaxFaultsRating, requests |-> MaxRequests,
         resp |-> Responses, deltas |-> {MacroTtlHours * Hour},
         readers |-> RatingClockReaders, syms |-> Symbols,
         macro |-> MacroAnswers, tech |-> {Rising}, fund |-> {Sound},
         recs |-> {Counts(1, 2, 1, 1, 0)}, history |-> FALSE, dbs |-> {"none"}])
SpecRating == InitSeq /\ [][NextRating]_vars

\* Two threads rate the same subject at the same time.  The provider does
\* not rate-limit here and no time passes but in the throttle's sleep, so
\* the back-off and the clock advance cannot occur.
MaxRequestsRace == 3
MaxIssuedRace == 7
MaxFaultsRace == 1

InitRace ==
    InitRequests(Threads,
        [issued |-> MaxIssuedRace, ticks |-> 0, faults |-> MaxFaultsRace,
         requests |-> MaxRequestsRace, resp |-> {"ok", "empty"},
         deltas |-> {}, readers |-> {}, syms |-> {"AAPL"},
         macro |-> {Typical}, tech |-> {Rising}, fund |-> {Sound},
         recs |-> {Counts(1, 2, 1, 1, 0)}, history |-> FALSE, dbs |-> {"none"}])

NextRace ==
    \/ \E t \in callers, s \in lim.syms : CalculateAndStoreRating(t, s)
    \/ \E t \in callers : GetOrCreateStock(t)
    \/ \E t \in callers : TechLookup(t)
    \/ \E t \in callers : CandleDone(t)
    \/ \E t \in callers : FundLookup(t)
    \/ \E t \in callers : MetricDone(t)
    \/ \E t \in callers : AnalystCall(t)
    \/ \E t \in callers : RecDone(t)
    \/ \E t \in callers, m \in lim.macro : GetMacroScore(t, m)
    \/ \E t \in callers : ReturnRating(t)
    \/ \E t \in callers : RatingUnavailable(t)
    \/ \E t \in callers : L38(t)
    \/ \E t \in callers : L40(t)
    \/ \E t \in callers : L41(t)
    \/ \E t \in callers : L42(t)
    \/ \E t \in callers : L43(t)
    \/ \E t \in callers : L44(t)
    \/ \E t \in callers : L45(t)
    \/ \E t \in callers, status \in lim.resp : L53(t, status)

SpecRace == InitRace /\ [][NextRace]_vars

\* Lookups of one subject's snapshots, one after the other, around the TTLs.
InitCache ==
    InitRequests({1},
        [issued |-> MaxIssuedRating, ticks |-> MaxTicksRating,
         faults |-> MaxFaultsRating, requests |-> MaxRequests,
         resp |-> {"ok", "empty", "429"}, deltas |-> RatingDeltas,
         readers |-> RatingClockReaders, syms |-> {"AAPL"},
         macro |-> {Typical}, tech |-> {Rising}, fund |-> {Sound},
         recs |-> {Counts(1, 2, 1, 1, 0)}, history |-> FALSE, dbs |-> {"none"}])
SpecCache == InitCache /\ [][NextRating]_vars

\* ------------------------------------------------------------------------
\* calculate_macro_score on its own, with and without the FRED credential
\* ------------------------------------------------------------------------
\* calculate_macro_score calls in one behaviour
MaxMacroCalls == 1

InitMacro ==
    /\ \E key \in BOOLEAN : InitRating({}, key)
    /\ now = 0
    /\ nticks = 0
    /\ nfault = 0
    /\ lim = [issued |-> 0, ticks |-> 0, faults |-> 0,
              requests |-> MaxMacroCalls, resp |-> {}, deltas |-> {},
              readers |-> {}, syms |-> {}, macro |-> MacroSweep, tech |-> {},
              fund |-> {}, recs |-> {}, history |-> FALSE, dbs |-> {"none"}]
    /\ callers = {1}
    /\ eng = [t \in Threads |-> t]
    /\ call_times = [e \in Threads |-> <<>>]
    /\ pc = [t \in Threads |-> "idle"]
    /\ cont = [t \in Threads |-> "none"]
    /\ attempt = [t \in Threads |-> 0]
    /\ tnow = [t \in Threads |-> 0]
    /\ wake = [t \in Threads |-> 0]
    /\ getret = [t \in Threads |-> "none"]
    /\ reqno = [t \in Threads |-> 0]
    /\ issued = <<>>
    /\ resps = [t \in Threads |-> <<>>]
    /\ pauses = [t \in Threads |-> <<>>]

NextMacro == \E m \in lim.macro : MacroScoreCall(m)

SpecMacro == InitMacro /\ [][NextMacro]_vars


\* ------------------------------------------------------------------------
\* One rating request over every kind of snapshot, recommendation and
\* macro answer
\* ------------------------------------------------------------------------
MaxRequestsScore == 1
MaxIssuedScore == 3
MaxFaultsScore == 1

InitScore ==
    /\ \E key \in BOOLEAN : InitRating({"AAPL"}, key)
    /\ now = 0
    /\ nticks = 0
    /\ nfault = 0
    /\ lim = [issued |-> MaxIssuedScore, ticks |-> 0,
              faults |-> MaxFaultsScore, requests |-> MaxRequestsScore,
              resp |-> {"ok", "empty", "500"}, deltas |-> {}, readers |-> {},
              syms |-> {"AAPL"}, macro |-> {Typical, NoData, Low},
              tech |-> TechContents, fund |-> FundContents,
              recs |-> Recommendations, history |-> TRUE, dbs |-> {"none"}]
    /\ callers = {1}
    /\ eng = [t \in Threads |-> t]
    /\ call_times = [e \in Threads |-> <<>>]
    /\ pc = [t \in Threads |-> "idle"]
    /\ cont = [t \in Threads |-> "none"]
    /\ attempt = [t \in Threads |-> 0]
    /\ tnow = [t \in Threads |-> 0]
    /\ wake = [t \in Threads |-> 0]
    /\ getret = [t \in Threads |-> "none"]
    /\ reqno = [t \in Threads |-> 0]
    /\ issued = <<>>
    /\ resps = [t \in Threads |-> <<>>]
    /\ pauses = [t \in Threads |-> <<>>]

\* one request has a client of its own and sends three requests at most:
\* nothing is old enough to leave the window, and the provider does not
\* rate-limit here
NextScore ==
    \/ \E t \in callers, s \in lim.syms : CalculateAndStoreRating(t, s)
    \/ \E t \in callers : GetOrCreateStock(t)
    \/ \E t \in callers : TechLookup(t)
    \/ \E t \in callers : CandleDone(t)
    \/ \E t \in callers : FundLookup(t)
    \/ \E t \in callers : MetricDone(t)
    \/ \E t \in callers : AnalystCall(t)
    \/ \E t \in callers : RecDone(t)
    \/ \E t \in callers, m \in lim.macro : GetMacroScore(t, m)
    \/ \E t \in callers : ReturnRating(t)
    \/ \E t \in callers : RatingUnavailable(t)
    \/ \E t \in callers : L38(t)
    \/ \E t \in callers : L40(t)
    \/ \E t \in callers : L42(t)
    \/ \E t \in callers : L43(t)
    \/ \E t \in callers : L44(t)
    \/ \E t \in callers : L45(t)
    \/ \E t \in callers, status \in lim.resp : L53(t, status)

SpecScore == InitScore /\ [][NextScore]_vars


\* ------------------------------------------------------------------------
\* One rating request over a grid of technical snapshots, or over a grid
\* of fundamental snapshots
\* ------------------------------------------------------------------------
\* columns on both sides of every threshold of lines 378-395; <<>> is NaN
TechSweep ==
    {[current_price |-> 100, sma_50 |-> a, sma_200 |-> b, rsi |-> r,
      macd |-> m, macd_signal |-> 0] :
         a \in {<<>>, <<90>>, <<100>>, <<110>>},
         b \in {<<>>, <<80>>, <<95>>, <<120>>},
         r \in {20, 30, 40, 50, 60, 70, 80},
         m \in {-1, 0, 1}}

\* metrics on both sides of every threshold of lines 408-438; <<>> is a
\* metric the provider did not give
FundSweep ==
    {[pe_ratio |-> pe, pb_ratio |-> pb, debt_to_equity |-> de,
      profit_margin |-> pm] :
         pe \in {<<>>, <<0>>, <<3>>, <<5>>, <<15>>, <<30>>, <<40>>, <<60>>},
         pb \in {<<>>, <<0>>, <<5>>, <<10>>, <<30>>, <<40>>},
         de \in {<<>>, <<0>>, <<30>>, <<50>>, <<100>>, <<150>>},
         pm \in {<<>>, <<-5>>, <<0>>, <<5>>, <<10>>, <<15>>, <<20>>}}

InitSnapshot ==
    /\ InitRating({"AAPL"}, TRUE)
    /\ now = 0
    /\ nticks = 0
    /\ nfault = 0
    /\ \E sweep \in {[tech |-> TechSweep, fund |-> {Sound}],
                     [tech |-> {Rising}, fund |-> FundSweep]} :
          lim = [issued |-> MaxIssuedScore, ticks |-> 0,
                 faults |-> MaxFaultsScore, requests |-> MaxRequestsScore,
                 resp |-> {"ok", "empty"}, deltas |-> {}, readers |-> {},
                 syms |-> {"AAPL"}, macro |-> {Typical},
                 tech |-> sweep.tech, fund |-> sweep.fund,
                 recs |-> {Counts(1, 2, 1, 1, 0)}, history |-> TRUE, dbs |-> {"none"}]
    /\ callers = {1}
    /\ eng = [t \in Threads |-> t]
    /\ call_times = [e \in Threads |-> <<>>]
    /\ pc = [t \in Threads |-> "idle"]
    /\ cont = [t \in Threads |-> "none"]
    /\ attempt = [t \in Threads |-> 0]
    /\ tnow = [t \in Threads |-> 0]
    /\ wake = [t \in Threads |-> 0]
    /\ getret = [t \in Threads |-> "none"]
    /\ reqno = [t \in Threads |-> 0]
    /\ issued = <<>>
    /\ resps = [t \in Threads |-> <<>>]
    /\ pauses = [t \in Threads |-> <<>>]

SpecSnapshot == InitSnapshot /\ [][NextScore]_vars

\* ------------------------------------------------------------------------
\* calculate_rating called one call after the other on one RatingService,
\* for a symbol that has no Stock row yet
\* ------------------------------------------------------------------------
MaxRequestsDirect == 2
MaxIssuedDirect == 6
MaxFaultsDirect == 4

InitDirect ==
    /\ InitRating({}, TRUE)
    /\ now = 0
    /\ nticks = 0
    /\ nfault = 0
    /\ lim = [issued |-> MaxIssuedDirect, ticks |-> 0,
              faults |-> MaxFaultsDirect, requests |-> MaxRequestsDirect,
              resp |-> Responses, deltas |-> {}, readers |-> {},
              syms |-> {"AAPL"}, macro |-> MacroAnswers,
              tech |-> {Rising}, fund |-> {Sound},
              recs |-> {Counts(1, 2, 1, 1, 0), Counts(0, 0, 0, 0, 0)},
              history |-> TRUE, dbs |-> {"none"}]
    /\ callers = {1}
    /\ eng = [t \in Threads |-> t]
    /\ call_times = [e \in Threads |-> <<>>]
    /\ pc = [t \in Threads |-> "idle"]
    /\ cont = [t \in Threads |-> "none"]
    /\ attempt = [t \in Threads |-> 0]
    /\ tnow = [t \in Threads |-> 0]
    /\ wake = [t \in Threads |-> 0]
    /\ getret = [t \in Threads |-> "none"]
    /\ reqno = [t \in Threads |-> 0]
    /\ issued = <<>>
    /\ resps = [t \in Threads |-> <<>>]
    /\ pauses = [t \in Threads |-> <<>>]

NextDirect ==
    \/ \E t \in callers, s \in lim.syms : CalculateRating(t, s)
    \/ \E t \in callers : GetOrCreateStock(t)
    \/ \E t \in callers : ProfileDone(t)
    \/ \E t \in callers : TechLookup(t)
    \/ \E t \in callers : CandleDone(t)
    \/ \E t \in callers : FundLookup(t)
    \/ \E t \in callers : MetricDone(t)
    \/ \E t \in callers : AnalystCall(t)
    \/ \E t \in callers : RecDone(t)
    \/ \E t \in callers, m \in lim.macro : GetMacroScore(t, m)
    \/ \E t \in callers : ReturnRating(t)
    \/ \E t \in callers : RatingUnavailable(t)
    \/ \E t \in callers : L38(t)
    \/ \E t \in callers : L40(t)
    \/ \E t \in callers : L41(t)
    \/ \E t \in callers : L42(t)
    \/ \E t \in callers : L43(t)
    \/ \E t \in callers : L44(t)
    \/ \E t \in callers : L45(t)
    \/ \E t \in callers, status \in lim.resp : L53(t, status)
    \/ \E t \in callers : L56(t)

SpecDirect == InitDirect /\ [][NextDirect]_vars


\* ------------------------------------------------------------------------
\* Requests on a RatingService that is kept for hours, with a macro
\* provider that may fail
\* ------------------------------------------------------------------------
MaxRequestsHour == 3
MaxIssuedHour == 5
MaxTicksHour == 2

\* pauses between requests: just under an hour, the rest of the hour, an
\* hour
HourDeltas == {MacroTtlHours * Hour - 1, 1, MacroTtlHours * Hour}

InitHour ==
    /\ InitRating({"AAPL"}, TRUE)
    /\ now = 0
    /\ nticks = 0
    /\ nfault = 0
    /\ lim = [issued |-> MaxIssuedHour, ticks |-> MaxTicksHour,
              faults |-> 0, requests |-> MaxRequestsHour,
              resp |-> {"ok"}, deltas |-> HourDeltas, readers |-> {"idle"},
              syms |-> {"AAPL"}, macro |-> MacroAnswers,
              tech |-> {Rising}, fund |-> {Sound},
              recs |-> {Counts(1, 2, 1, 1, 0)}, history |-> TRUE, dbs |-> {"none"}]
    /\ callers = {1}
    /\ eng = [t \in Threads |-> t]
    /\ call_times = [e \in Threads |-> <<>>]
    /\ pc = [t \in Threads |-> "idle"]
    /\ cont = [t \in Threads |-> "none"]
    /\ attempt = [t \in Threads |-> 0]
    /\ tnow = [t \in Threads |-> 0]
    /\ wake = [t \in Threads |-> 0]
    /\ getret = [t \in Threads |-> "none"]
    /\ reqno = [t \in Threads |-> 0]
    /\ issued = <<>>
    /\ resps = [t \in Threads |-> <<>>]
    /\ pauses = [t \in Threads |-> <<>>]

\* the stock is known and the Finnhub provider answers every request, so
\* no profile is fetched, nothing is retried and no request fails
NextHour ==
    \/ \E d \in lim.deltas : Tick(d)
    \/ \E t \in callers, s \in lim.syms : CalculateRating(t, s)
    \/ \E t \in callers : GetOrCreateStock(t)
    \/ \E t \in callers : TechLookup(t)
    \/ \E t \in callers : CandleDone(t)
    \/ \E t \in callers : FundLookup(t)
    \/ \E t \in callers : MetricDone(t)
    \/ \E t \in callers : AnalystCall(t)
    \/ \E t \in callers : RecDone(t)
    \/ \E t \in callers, m \in lim.macro : GetMacroScore(t, m)
    \/ \E t \in callers : ReturnRating(t)
    \/ \E t \in callers : L38(t)
    \/ \E t \in callers : L40(t)
    \/ \E t \in callers : L41(t)
    \/ \E t \in callers : L42(t)
    \/ \E t \in callers : L43(t)
    \/ \E t \in callers : L44(t)
    \/ \E t \in callers : L45(t)
    \/ \E t \in callers, status \in lim.resp : L53(t, status)

SpecHour == InitHour /\ [][NextHour]_vars


\* ------------------------------------------------------------------------
\* calculate_rating and its database session: the service is built with or
\* without a session, the caller passes none, that one or one of its own,
\* and the candle or metric request may come back empty
\* ------------------------------------------------------------------------
MaxRequestsSession == 2
MaxIssuedSession == 4
MaxFaultsSession == 1

SessionArguments == {"none", "own", "other"}

InitSession ==
    /\ \E own \in BOOLEAN : InitService({"AAPL"}, TRUE, own)
    /\ now = 0
    /\ nticks = 0
    /\ nfault = 0
    /\ lim = [issued |-> MaxIssuedSession, ticks |-> 0,
              faults |-> MaxFaultsSession, requests |-> MaxRequestsSession,
              resp |-> {"ok", "empty"}, deltas |-> {}, readers |-> {},
              syms |-> {"AAPL"}, macro |-> {Typical},
              tech |-> {Rising}, fund |-> {Sound},
              recs |-> {Counts(1, 2, 1, 1, 0)}, history |-> TRUE,
              dbs |-> SessionArguments]
    /\ callers = {1}
    /\ eng = [t \in Threads |-> t]
    /\ call_times = [e \in Threads |-> <<>>]
    /\ pc = [t \in Threads |-> "idle"]
    /\ cont = [t \in Threads |-> "none"]
    /\ attempt = [t \in Threads |-> 0]
    /\ tnow = [t \in Threads |-> 0]
    /\ wake = [t \in Threads |-> 0]
    /\ getret = [t \in Threads |-> "none"]
    /\ reqno = [t \in Threads |-> 0]
    /\ issued = <<>>
    /\ resps = [t \in Threads |-> <<>>]
    /\ pauses = [t \in Threads |-> <<>>]

NextSession ==
    \/ \E t \in callers, s \in lim.syms : CalculateRating(t, s)
    \/ \E t \in callers, s \in lim.syms : CalculateAndStoreRating(t, s)
    \/ \E t \in callers : GetOrCreateStock(t)
    \/ \E t \in callers : TechLookup(t)
    \/ \E t \in callers : CandleDone(t)
    \/ \E t \in callers : FundLookup(t)
    \/ \E t \in callers : MetricDone(t)
    \/ \E t \in callers : AnalystCall(t)
    \/ \E t \in callers : RecDone(t)
    \/ \E t \in callers, m \in lim.macro : GetMacroScore(t, m)
    \/ \E t \in callers : ReturnRating(t)
    \/ \E t \in callers : RatingUnavailable(t)
    \/ \E t \in callers : L38(t)
    \/ \E t \in callers : L40(t)
    \/ \E t \in callers : L42(t)
    \/ \E t \in callers : L43(t)
    \/ \E t \in callers : L44(t)
    \/ \E t \in callers : L45(t)
    \/ \E t \in callers, status \in lim.resp : L53(t, status)

SpecSession == InitSession /\ [][NextSession]_vars


\* ------------------------------------------------------------------------
\* The macro endpoints of the api (app/api/macro.py) and the MacroSnapshot
\* store (app/crud/macro_snapshot.py).  The endpoints are plain functions,
\* which the framework runs on the threads of its pool; between the query
\* of an endpoint and its save lies the whole of calculate_macro_score.
\* ------------------------------------------------------------------------
ReadEndpoints == {"environment", "indicators"}

\* get_latest_snapshot, lines 23-28: order_by(created_at.desc()).first();
\* no row gives None, rows with equal created_at come in no defined order
LatestSnapshot(rows) ==
    {i \in 1..Len(rows) :
        \A j \in 1..Len(rows) : rows[j].created_at <= rows[i].created_at}

\* save_snapshot, lines 7-20: db.add, db.commit; created_at defaults to
\* utcnow(); the row holds the macro result obj
SaveSnapshot(rows, obj) == Append(rows, [created_at |-> now, data |-> obj])

\* the requests the endpoints have taken so far
MacroRequests == Len(served) + Cardinality({t \in callers : mpc[t] # "idle"})

\* get_macro_environment and get_macro_indicators, lines 56-58 and 69-71:
\* the latest snapshot is answered; without one the endpoint goes on to
\* _refresh_and_store
ReadEndpoint(t, op) ==
    /\ mpc[t] = "idle"
    /\ MacroRequests < lim.requests
    /\ IF LatestSnapshot(macro_snapshots) = {}
       THEN /\ mpc' = [mpc EXCEPT ![t] = op]
            /\ UNCHANGED served
       ELSE /\ \E i \in LatestSnapshot(macro_snapshots) :
                  served' = Append(served,
                      [op |-> op, caller |-> t, snapshot |-> i,
                       stored |-> FALSE, held |-> Len(macro_snapshots),
                       at |-> now])
            /\ UNCHANGED mpc
    /\ UNCHANGED <<now, nticks, nfault, lim, callers, limiterVars, releaseVars,
                   sessionVars, macro_snapshots, ratingVars, clientVars>>

\* refresh_macro_data, lines 84-86: _refresh_and_store whatever is stored
RefreshEndpoint(t) ==
    /\ mpc[t] = "idle"
    /\ MacroRequests < lim.requests
    /\ mpc' = [mpc EXCEPT ![t] = "refresh"]
    /\ UNCHANGED <<now, nticks, nfault, lim, callers, limiterVars, releaseVars,
                   sessionVars, macro_snapshots, served, ratingVars,
                   clientVars>>

\* _refresh_and_store, lines 126-128: calculate_macro_score, which raises
\* nothing, then save_snapshot; the endpoint answers the saved row
RefreshAndStore(t, m) ==
    /\ mpc[t] # "idle"
    /\ \E r \in CalculateMacroScore(fred_key, m) :
          /\ macro_made' = Append(macro_made, MacroObject(m, r))
          /\ macro_snapshots' = SaveSnapshot(macro_snapshots,
                                             Len(macro_made) + 1)
    /\ served' = Append(served,
           [op |-> mpc[t], caller |-> t, snapshot |-> Len(macro_snapshots) + 1,
            stored |-> TRUE, held |-> Len(macro_snapshots), at |-> now])
    /\ mpc' = [mpc EXCEPT ![t] = "idle"]
    /\ UNCHANGED <<now, nticks, nfault, lim, callers, limiterVars, releaseVars,
                   sessionVars, returned, clientVars, stocks,
                   technical_indicators, fundamental_indicators, ratings,
                   fred_key, macro_cache, macro_cache_time, entry, sym,
                   technical, fundamental, analyst, macro_data, outcome,
                   nreqs, look, hist, mcall>>

MaxMacroRequests == 3
MaxTicksMacroApi == 1

\* a second and a day
MacroApiDeltas == {TicksPerSecond, 24 * Hour}

InitMacroApi ==
    /\ InitRating({}, TRUE)
    /\ now = 0
    /\ nticks = 0
    /\ nfault = 0
    /\ lim = [issued |-> 0, ticks |-> MaxTicksMacroApi, faults |-> 0,
              requests |-> MaxMacroRequests, resp |-> {},
              deltas |-> MacroApiDeltas, readers |-> {"idle"}, syms |-> {},
              macro |-> MacroAnswers, tech |-> {}, fund |-> {}, recs |-> {},
              history |-> FALSE, dbs |-> {"none"}]
    /\ callers = Threads
    /\ eng = [t \in Threads |-> t]
    /\ call_times = [e \in Threads |-> <<>>]
    /\ pc = [t \in Threads |-> "idle"]
    /\ cont = [t \in Threads |-> "none"]
    /\ attempt = [t \in Threads |-> 0]
    /\ tnow = [t \in Threads |-> 0]
    /\ wake = [t \in Threads |-> 0]
    /\ getret = [t \in Threads |-> "none"]
    /\ reqno = [t \in Threads |-> 0]
    /\ issued = <<>>
    /\ resps = [t \in Threads |-> <<>>]
    /\ pauses = [t \in Threads |-> <<>>]

NextMacroApi ==
    \/ \E d \in lim.deltas : Tick(d)
    \/ \E t \in callers, op \in ReadEndpoints : ReadEndpoint(t, op)
    \/ \E t \in callers : RefreshEndpoint(t)
    \/ \E t \in callers, m \in lim.macro : RefreshAndStore(t, m)

SpecMacroApi == InitMacroApi /\ [][NextMacroApi]_vars


\* ------------------------------------------------------------------------
\* Requests of two client addresses through one limiter
\* ------------------------------------------------------------------------
MaxLimiterCalls == 5
MaxTicksLimiter == 3

\* pauses shorter than the window, of just under the window and of the
\* window itself
LimiterDeltas == {1, LimiterWindow - 1, LimiterWindow}

InitLimiter ==
    InitClient({1},
        [issued |-> 0, ticks |-> MaxTicksLimiter, faults |-> 0,
         requests |-> MaxLimiterCalls, resp |-> {}, deltas |-> LimiterDeltas,
         readers |-> {"idle"}, syms |-> {}, macro |-> {}, tech |-> {},
         fund |-> {}, recs |-> {}, history |-> FALSE, dbs |-> {"none"}])

NextInMemory ==
    \/ \E ip \in Ips : InMemoryCall(ip)
    \/ \E d \in lim.deltas : Tick(d)

SpecInMemory == InitLimiter /\ [][NextInMemory]_vars

NextRedis ==
    \/ \E ip \in Ips : RedisCall(ip)
    \/ \E d \in lim.deltas : Tick(d)

SpecRedis == InitLimiter /\ [][NextRedis]_vars


\* ------------------------------------------------------------------------
\* Release lookups on one MacroeconomicService
\* ------------------------------------------------------------------------
MaxReleaseLookups == 3

InitRelease ==
    InitClient({1},
        [issued |-> 0, ticks |-> 0, faults |-> 0,
         requests |-> MaxReleaseLookups, resp |-> {}, deltas |-> {},
         readers |-> {}, syms |-> {}, macro |-> {}, tech |-> {},
         fund |-> {}, recs |-> {}, history |-> FALSE, dbs |-> {"none"}])

NextRelease ==
    \E k \in ReleaseKeys, ra \in ReleaseAnswers, da \in DateAnswers :
        GetNextReleaseDate(k, ra, da)

SpecRelease == InitRelease /\ [][NextRelease]_vars

\* ------------------------------------------------------------------------
\* Properties of FinnhubClient
\* ------------------------------------------------------------------------
\* issue times of the requests of client e, in order
RECURSIVE TimesOf(_, _)
TimesOf(h, e) ==
    IF h = <<>> THEN <<>>
    ELSE IF Head(h).client = e
         THEN <<Head(h).time>> \o TimesOf(Tail(h), e)
         ELSE TimesOf(Tail(h), e)

\* no MaxPerMinute + 1 requests of the sequence lie within 60 s
AtMostPerWindow(ts) ==
    \A i, j \in 1..Len(ts) : j - i >= MaxPerMinute => ts[j] - ts[i] > Window

IsSuffix(q, ts) ==
    /\ Len(q) <= Len(ts)
    /\ \A k \in 1..Len(q) : q[k] = ts[Len(ts) - Len(q) + k]

\* C1: with one caller at a time, every provider request (retries included)
\* is recorded by _throttle in the window, a request that finds the window
\* full is issued only once the oldest timestamp is at least 60 s old, and no
\* 60-second interval contains more than max_per_minute requests.
C1_ThrottleBoundsRequests ==
    /\ IsSuffix(call_times[1], TimesOf(issued, 1))
    /\ \A t \in callers :
          pc[t] = "l45" /\ WindowFull(call_times[eng[t]])
             => now - Head(call_times[eng[t]]) >= Window
    /\ AtMostPerWindow(TimesOf(issued, 1))

\* a request found the window full, slept, and left exactly when the sleep
\* ended; one of the requests was a retry
C1_Witness ==
    /\ Len(issued) > MaxPerMinute
    /\ issued[MaxPerMinute + 1].time = issued[1].time + Window + Slack
    /\ \E t \in callers : Len(resps[t]) >= 2

\* C2: with several callers on one client, check and append are one atomic
\* step, so no 60-second interval holds more than max_per_minute requests.
C2_AtomicCheckAndAppend ==
    \A e \in Threads : AtMostPerWindow(TimesOf(issued, e))

\* outcomes of get that are exceptions
Raised == {"HTTPError", "IndexError"}

\* C4: a get answered 429 on every attempt makes exactly 3 attempts, pauses
\* 1.5 s x k after the k-th, and ends in a failure raised to the caller.
C4_ExhaustedRetriesRaise ==
    \A t \in callers :
        (/\ pc[t] = "get_done"
         /\ resps[t] # <<>>
         /\ \A i \in 1..Len(resps[t]) : resps[t][i] = "429")
        => /\ Len(resps[t]) = MaxAttempts
           /\ pauses[t] = [k \in 1..MaxAttempts |-> BackoffUnit * k]
           /\ getret[t] \in Raised

\* C5: a non-success status other than 429 is raised on the attempt that
\* received it: it is the last answer of the call, no pause follows it, and
\* the call has ended with the error.
C5_OtherErrorsNotRetried ==
    \A t \in callers : \A i \in 1..Len(resps[t]) :
        resps[t][i] = "500"
        => /\ i = Len(resps[t])
           /\ pc[t] \notin GetPcs
           /\ getret[t] = "HTTPError"
           /\ Len(pauses[t]) = i - 1

\* a 500 arrived on the retry that followed a 429
C5_Witness ==
    \E t \in callers :
        /\ resps[t] = <<"429", "500">>
        /\ getret[t] = "HTTPError"

\* ------------------------------------------------------------------------
\* Properties of rating requests and of the snapshot cache
\* ------------------------------------------------------------------------
IssueTimes == [i \in 1..Len(issued) |-> issued[i].time]

\* C3: the window is shared by all rating requests of the process: over any
\* sequence of calculate_and_store_rating calls no 60-second interval holds
\* more than max_per_minute provider requests.
C3_WindowSharedByRequests == AtMostPerWindow(IssueTimes)

\* C6: a snapshot is served from the cache if and only if its age is
\* strictly below the TTL; at an age of exactly the TTL it is stale.
C6_FreshIffYoungerThanTtl ==
    \A i \in 1..Len(hist) :
        hist[i].hit <=> (/\ hist[i].latest >= 0
                         /\ hist[i].at - hist[i].latest < Ttl(hist[i].kind))

SameKey(a, b) == a.kind = b.kind /\ a.stock = b.stock

\* C7: a lookup made within the TTL of the snapshot an earlier lookup
\* returned gives back that snapshot with the same contents and fetches
\* nothing; the one fetch is the one that created the snapshot.
C7_LookupsWithinTtlShareOneFetch ==
    \A i, j \in 1..Len(hist) :
        (/\ i < j
         /\ SameKey(hist[i], hist[j])
         /\ hist[i].row # 0
         /\ hist[j].at - hist[i].stamp < Ttl(hist[i].kind))
        => /\ hist[j].row = hist[i].row
           /\ hist[j].stamp = hist[i].stamp
           /\ hist[j].data = hist[i].data
           /\ ~hist[j].fetch
           /\ Cardinality({k \in 1..Len(hist) :
                              /\ SameKey(hist[k], hist[i])
                              /\ hist[k].row = hist[i].row
                              /\ hist[k].fetch}) = 1

\* for both kinds, a fetch stored a snapshot and a later lookup, made after
\* some time but within the TTL, returned it
C7_Witness ==
    \A kind \in {"technical", "fundamental"} :
        \E i, j \in 1..Len(hist) :
            /\ i < j
            /\ hist[i].kind = kind
            /\ SameKey(hist[i], hist[j])
            /\ hist[i].fetch
            /\ hist[i].row # 0
            /\ hist[j].hit
            /\ hist[j].at > hist[i].stamp

C10_MacroCachedProcessWide ==
    \A t \in callers :
        (/\ pc[t] = "l118"
         /\ mcall[t].prior # 0
         /\ mcall[t].at - macro_made[mcall[t].prior].at < MacroTtlHours * Hour)
        => /\ macro_data[t] = mcall[t].prior
           /\ ~mcall[t].fetched

\* ------------------------------------------------------------------------
\* Properties of MacroeconomicService
\* ------------------------------------------------------------------------
\* the objects made with the credential from at least one indicator
Scored == {i \in 1..Len(macro_made) : macro_made[i].kind = "FRED"}

\* C12: every macro component score lies in [0,10], whatever the values of
\* the indicators.
C12_MacroComponentsInRange ==
    \A i \in 1..Len(macro_made) : \A c \in Components :
        /\ 0 <= macro_made[i].result.components[c]
        /\ macro_made[i].result.components[c] <= 1000

\* C18: without an API key every calculate_macro_score call returns the
\* composite 5.0, six components of 5.0, no indicators and the fixed
\* analysis text, and asks nothing of the provider.
C18_NoCredentialNeutral ==
    \A i \in 1..Len(macro_made) :
        ~macro_made[i].key =>
            /\ macro_made[i].result.macro_score = 500
            /\ \A c \in Components : macro_made[i].result.components[c] = 500
            /\ DOMAIN macro_made[i].result.indicators = {}
            /\ macro_made[i].result.analysis =
                   "Macro score unavailable (FRED API key not configured)"
            /\ macro_made[i].asked = {}

C18_Witness ==
    \E i \in 1..Len(macro_made) :
        ~macro_made[i].key /\ macro_made[i].result.macro_score = 500

\* the category the bucketing rule gives value v for the range (low, high)
Bucket(v, low, high) ==
    IF low <= v /\ v <= high THEN "ideal"
    ELSE IF /\ 2 * (low - v) <= high - low
            /\ 2 * (v - high) <= high - low THEN "acceptable"
    ELSE IF v < low THEN "below-range"
    ELSE "above-range"

\* C19: an indicator is categorised ideal iff it lies in its optimal range,
\* both ends included; otherwise acceptable iff it is within half the width
\* of the range outside it; otherwise below-range or above-range.
C19_CategoryAgainstOptimal ==
    \A i \in Scored :
        LET r == macro_made[i].result IN
        \A k \in DOMAIN r.indicators :
            ContextRange(k) # <<>> =>
                r.indicator_context[k] =
                    Bucket(r.indicators[k], ContextRange(k)[1][1],
                           ContextRange(k)[1][2])

C19_Witness ==
    \E i \in Scored :
        LET r == macro_made[i].result IN
        \E k \in DOMAIN r.indicators :
            /\ ContextRange(k) # <<>>
            /\ r.indicators[k] \in {ContextRange(k)[1][1], ContextRange(k)[1][2]}
            /\ r.indicator_context[k] = "ideal"

\* C20: an indicator that was obtained is scored by its table even when
\* its value is 0: GDP growth 0 scores 7.0, a fed funds rate of 0 scores
\* 7.0 and is not replaced by the 10-year yield.
C20_ZeroIsScoredByTable ==
    \A i \in Scored :
        LET o == macro_made[i].obtained
            r == macro_made[i].result IN
        /\ ("gdp_growth" \in DOMAIN o /\ o["gdp_growth"] = 0)
               => r.components["growth"] = 700
        /\ ("fed_funds_rate" \in DOMAIN o /\ o["fed_funds_rate"] = 0)
               => r.components["interest_rates"] = 700

\* ------------------------------------------------------------------------
\* Properties of calculate_rating
\* ------------------------------------------------------------------------
\* the finished calculate_rating calls, and those that returned a rating
Calls == {r \in returned : r.op = "calculate_rating"}
Rated == {r \in Calls : r.value # <<>>}

InRange(x) == 0 <= x /\ x <= 1000

\* C11: every rating returned has overall = round(0.25 * technical + 0.25 *
\* analyst + 0.25 * fundamental + 0.25 * macro, 2) and its five scores in
\* [0,10].
C11_OverallIsWeightedSumInRange ==
    \A r \in Rated :
        LET v == r.value[1]
            sc == r.scores[1] IN
        /\ v.overall_rating \in
               Round2((sc.technical + sc.fundamental + 1000 * sc.macro)
                          * sc.analyst.d + sc.analyst.n, 4 * sc.analyst.d)
        /\ InRange(v.overall_rating)
        /\ InRange(v.technical_score)
        /\ InRange(v.analyst_score)
        /\ InRange(v.fundamental_score)
        /\ InRange(v.macro_score)

\* the get that a snapshot lookup made did not bring a usable payload
FetchFailed(h) == h.fetch /\ h.ret # "json"

\* C13: when no fresh snapshot is stored and the fetch exhausts its retries,
\* errors or brings no data, no snapshot is made up and calculate_rating
\* returns no rating.
C13_MissingSnapshotMakesRatingUnavailable ==
    /\ \A i \in 1..Len(hist) : FetchFailed(hist[i]) => hist[i].row = 0
    /\ \A r \in Calls :
          (r.cause[1].cont \in {"candle", "metric"} /\ r.cause[1].ret # "json")
              => r.value = <<>>
    /\ \A t \in callers :
          (pc[t] = "get_done" /\ cont[t] \in {"candle", "metric"}
           /\ getret[t] # "json") => outcome[t] = "running"

C13_Witness ==
    /\ \E r \in Calls :
          /\ r.cause[1].cont = "candle"
          /\ r.cause[1].resps = <<"429", "429", "429">>
          /\ r.value = <<>>
    /\ \E r \in Calls :
          /\ r.cause[1].cont = "metric"
          /\ r.cause[1].ret # "json"
          /\ r.value = <<>>

\* the recommendation fetch failed or brought no counts
NoRecommendation(r) ==
    /\ r.cause[1].cont = "recommendation"
    /\ \/ r.cause[1].ret # "json"
       \/ /\ r.latest # <<>>
          /\ r.latest[1] = Counts(0, 0, 0, 0, 0)

\* C14: when the recommendation fetch fails or brings an empty
\* distribution, the analyst score is exactly 5.0 and a rating is returned.
C14_AnalystDegradesToNeutral ==
    /\ \A r \in Calls :
          NoRecommendation(r) =>
              /\ r.value # <<>>
              /\ r.scores[1].analyst.n = 5 * Point * r.scores[1].analyst.d
              /\ r.value[1].analyst_score = 500
    /\ \A t \in callers : pc[t] = "except" => cont[t] # "recommendation"

C14_Witness ==
    \E r \in Rated :
        /\ r.cause[1].cont = "recommendation"
        /\ r.cause[1].resps = <<"429", "429", "429">>
        /\ r.value[1].analyst_score = 500

\* C15: calculate_macro_score always returns a result; without any
\* indicator it is the neutral snapshot; and a request that has reached the
\* macro score is never reported unavailable.
C15_MacroDegradesToNeutral ==
    /\ \A i \in 1..Len(macro_made) :
          DOMAIN macro_made[i].obtained = {} =>
              /\ macro_made[i].result.macro_score = 500
              /\ \A c \in Components : macro_made[i].result.components[c] = 500
              /\ DOMAIN macro_made[i].result.indicators = {}
              /\ macro_made[i].result.data_source = "default"
    /\ \A t \in callers :
          macro_data[t] # 0 =>
              /\ macro_data[t] \in 1..Len(macro_made)
              /\ pc[t] # "except"
              /\ outcome[t] \in {"running", "rating"}

C15_Witness ==
    /\ \E i \in 1..Len(macro_made) :
          macro_made[i].key /\ DOMAIN macro_made[i].obtained = {}
    /\ \E r \in Rated : r.scores[1].macro = 500

\* C16: a request that failed on an empty payload and a request that
\* failed on exhausted rate-limit retries give their callers different
\* outcomes.
C16_NoDataDistinctFromUnavailable ==
    \A a, b \in Calls :
        (/\ a.cause[1].cont \in {"candle", "metric"}
         /\ a.cause[1].resps = <<"empty">>
         /\ b.cause[1].cont \in {"candle", "metric"}
         /\ b.cause[1].resps = <<"429", "429", "429">>)
            => a.value # b.value

\* C17: calculate_rating, get_stock_info and calculate_macro_score return a
\* result or a failure value and never raise.
C17_NoExceptionEscapes ==
    /\ \A t \in callers :
          outcome[t] \in {"none", "running", "rating", "unavailable", "404"}
    /\ \A r \in returned : Len(r.value) <= 1
    /\ \A i \in 1..Len(macro_made) :
          macro_made[i].result.data_source \in {"FRED", "default"}

C17_Witness ==
    /\ \E r \in Calls : r.value = <<>> /\ r.cause[1].ret = "HTTPError"
    /\ \E r \in returned :
          /\ r.op = "get_stock_info"
          /\ r.cause[1].ret = "HTTPError"
          /\ r.value = <<>>

\* ------------------------------------------------------------------------
\* Properties of the snapshot scores
\* ------------------------------------------------------------------------
\* the snapshots a returned rating was computed from
TechnicalOf(r) == r.snapshots[1]
FundamentalOf(r) == r.snapshots[2]

\* a > b of two columns, false when either holds NaN
Above(a, b) == a # <<>> /\ b # <<>> /\ a[1] > b[1]

\* the five scoring conditions of the technical score
AllFive(c) ==
    /\ Above(<<c.current_price>>, c.sma_50)
    /\ Above(<<c.current_price>>, c.sma_200)
    /\ Above(c.sma_50, c.sma_200)
    /\ 40 <= c.rsi /\ c.rsi <= 60
    /\ c.macd > c.macd_signal

\* C21: the technical score is 10 only when the five scoring conditions
\* hold together; with one of them false it is below 10.
C21_CeilingOnlyWithAllConditions ==
    \A r \in Rated :
        r.scores[1].technical = 10 * Point <=> AllFive(TechnicalOf(r))

\* what a snapshot misses of the 7.0 the five conditions add
Shortfall(c) ==
    (IF Above(<<c.current_price>>, c.sma_50) THEN 0 ELSE 150000)
    + (IF Above(<<c.current_price>>, c.sma_200) THEN 0 ELSE 150000)
    + (IF Above(c.sma_50, c.sma_200) THEN 0 ELSE 100000)
    + (IF 40 <= c.rsi /\ c.rsi <= 60 THEN 0
       ELSE IF 30 <= c.rsi /\ c.rsi <= 70 THEN 50000 ELSE 100000)
    + (IF c.macd > c.macd_signal THEN 0 ELSE 150000)

\* C21 as amended: the technical score is 10 when the five conditions hold
\* together, and exactly when the snapshot misses no more than 2.0 of
\* their additions; it is below 10 only when it misses more.
C21_CeilingUpToShortfall ==
    \A r \in Rated :
        LET c == TechnicalOf(r) IN
        /\ AllFive(c) => r.scores[1].technical = 10 * Point
        /\ r.scores[1].technical = 10 * Point <=> Shortfall(c) <= 2 * Point
        /\ r.scores[1].technical = 12 * Point - Max2(Shortfall(c), 2 * Point)

C21_Witness ==
    \E r \in Rated :
        /\ ~AllFive(TechnicalOf(r))
        /\ Shortfall(TechnicalOf(r)) = 2 * Point
        /\ r.scores[1].technical = 10 * Point

\* the adjustments of the table for a ratio that is present, 0 included
TablePe(v) ==
    IF 10 <= v /\ v <= 20 THEN 150000
    ELSE IF 5 <= v /\ v <= 30 THEN 100000
    ELSE IF v < 5 \/ v > 50 THEN -50000 ELSE 0
TablePb(v) ==
    IF 10 <= v /\ v <= 30 THEN 100000 ELSE IF v < 10 THEN 150000 ELSE 0
TableDebt(v) == IF v < 50 THEN 100000 ELSE IF v > 100 THEN -50000 ELSE 0
TableMargin(v) ==
    IF v > 15 THEN 150000 ELSE IF v > 5 THEN 100000
    ELSE IF v < 0 THEN -100000 ELSE 0
Adjusted(x, v) == IF x = <<>> THEN 0 ELSE v

\* C22: the fundamental score is 5.0 plus the table's adjustment of every
\* ratio that is present, a ratio of exactly 0 included, clamped to [0,10];
\* only a missing ratio adds nothing.
C22_PresentRatiosAdjustedByTable ==
    \A r \in Rated :
        LET c == FundamentalOf(r) IN
        r.scores[1].fundamental =
            Clamp(5 * Point
                  + Adjusted(c.pe_ratio, TablePe(c.pe_ratio[1]))
                  + Adjusted(c.pb_ratio, TablePb(c.pb_ratio[1]))
                  + Adjusted(c.debt_to_equity, TableDebt(c.debt_to_equity[1]))
                  + Adjusted(c.profit_margin, TableMargin(c.profit_margin[1])))

\* ------------------------------------------------------------------------
\* Properties of the yield curve
\* ------------------------------------------------------------------------
\* C23: when both treasury yields were obtained, the indicators contain
\* yield_curve_spread = treasury_10y - treasury_2y, and the spread is
\* categorised ideal exactly when the yield-curve component scores 9.0.
C23_SpreadCategoryAgreesWithScore ==
    \A i \in Scored :
        LET o == macro_made[i].obtained
            r == macro_made[i].result IN
        {"treasury_10y", "treasury_2y"} \subseteq DOMAIN o =>
            /\ "yield_curve_spread" \in DOMAIN r.indicators
            /\ r.indicators["yield_curve_spread"] =
                   o["treasury_10y"] - o["treasury_2y"]
            /\ r.indicator_context["yield_curve_spread"] = "ideal"
                   <=> r.components["yield_curve"] = 900

\* ------------------------------------------------------------------------
\* Properties of the request limiters
\* ------------------------------------------------------------------------
\* the calls of address ip, and those among the first n calls that were
\* accepted at or after time lo
CallsOf(ip) == {i \in 1..Len(limited) : limited[i].ip = ip}
AcceptedSince(ip, n, lo) ==
    {i \in CallsOf(ip) : i <= n /\ limited[i].status = 200 /\ limited[i].at >= lo}

\* C24: for each address at most max_requests requests are accepted within
\* any interval of window_seconds; a request over the limit gets 429 and
\* is not recorded; the outcome for an address depends on the accepted
\* requests of that address alone.
C24_InMemoryWindowPerIp ==
    \A i \in 1..Len(limited) :
        LET c == limited[i]
            earlier == AcceptedSince(c.ip, i - 1, c.at - LimiterWindow)
            inWindow == AcceptedSince(c.ip, i, c.at - LimiterWindow) IN
        /\ c.status \in {200, 429}
        /\ c.status = 429 <=> Cardinality(earlier) >= MaxRequestsPerIp
        /\ Cardinality(inWindow) <= MaxRequestsPerIp
        /\ Len(c.state) = Cardinality(inWindow)
        /\ \A k \in 1..Len(c.state) : c.state[k] >= c.at - LimiterWindow

C24_Witness ==
    \E i, j \in 1..Len(limited) :
        /\ i < j
        /\ limited[i].ip = limited[j].ip
        /\ limited[i].status = 429
        /\ limited[j].status = 200
        /\ \E k \in 1..Len(limited) :
              /\ limited[k].ip # limited[i].ip
              /\ limited[k].at = limited[i].at
              /\ limited[k].status = 200

\* the call of the same address before call i, 0 when there is none
Previous(i) ==
    LET before == {j \in CallsOf(limited[i].ip) : j < i} IN
    IF before = {} THEN 0 ELSE CHOOSE j \in before : \A k \in before : k <= j

\* C29: every request, a rejected one included, increments the counter of
\* its address and sets its expiry to window_seconds; after a rejection
\* the address stays rejected until window_seconds pass without a request
\* from it, and the first request after such a pause is accepted.
C29_RedisRejectionExtendsWindow ==
    \A i \in 1..Len(limited) :
        LET c == limited[i]
            p == Previous(i) IN
        /\ c.state.expire = c.at + LimiterWindow
        /\ c.state = redis[c.ip] \/ \E j \in CallsOf(c.ip) : j > i
        /\ p = 0 => c.state.count = 1
        /\ p # 0 =>
              /\ c.at - limited[p].at < LimiterWindow =>
                    /\ c.state.count = limited[p].state.count + 1
                    /\ limited[p].status = 429 => c.status = 429
              /\ c.at - limited[p].at >= LimiterWindow =>
                    /\ c.state.count = 1
                    /\ c.status = 200

C29_Witness ==
    \E i, j, k \in 1..Len(limited) :
        /\ i = Previous(j) /\ j = Previous(k)
        /\ limited[i].status = 429
        /\ limited[j].status = 429
        /\ limited[j].at > limited[i].at
        /\ limited[k].status = 200

\* ------------------------------------------------------------------------
\* Properties of the release calendar
\* ------------------------------------------------------------------------
\* C25: once a lookup for a key has completed, every later lookup for the
\* same key is answered without any provider request.
C25_ReleaseLookupCached ==
    \A i, j \in 1..Len(releases) :
        (i < j /\ releases[i].key = releases[j].key)
            => releases[j].requests = <<>>

\* the lookups of the key of lookup j before it that returned a date
DatedBefore(j) ==
    {i \in 1..Len(releases) :
        i < j /\ releases[i].key = releases[j].key /\ releases[i].result # <<>>}

\* C25 as amended: once a lookup for a key has returned a release date,
\* every later lookup for that key returns that date without any provider
\* request; a lookup after lookups that returned no date asks the provider
\* again.
C25_DatedReleaseLookupCached ==
    \A j \in 1..Len(releases) :
        /\ \A i \in DatedBefore(j) :
              /\ releases[j].requests = <<>>
              /\ releases[j].result = releases[i].result
        /\ DatedBefore(j) = {} => releases[j].requests # <<>>

C25_Witness ==
    \E i, j, k \in 1..Len(releases) :
        /\ i < j /\ j < k
        /\ releases[i].key = releases[j].key /\ releases[j].key = releases[k].key
        /\ releases[i].result = <<>>
        /\ releases[j].requests # <<>>
        /\ releases[j].result # <<>>
        /\ releases[k].requests = <<>>
        /\ releases[k].result = releases[j].result

\* ------------------------------------------------------------------------
\* Properties of the macro cache of one RatingService
\* ------------------------------------------------------------------------
\* the object that was made last before the _get_macro_score call of
\* thread t is the default of a failed provider
PriorIsFailureDefault(t) ==
    /\ mcall[t].prior # 0
    /\ macro_made[mcall[t].prior].key
    /\ DOMAIN macro_made[mcall[t].prior].obtained = {}
    /\ macro_made[mcall[t].prior].kind = "default"

\* C26: a default produced by a provider failure is cached like any other
\* result: a _get_macro_score call less than an hour later returns it
\* without asking the provider, a call an hour or more later recomputes.
C26_FailureDefaultCachedForAnHour ==
    \A t \in callers :
        (pc[t] = "l118" /\ PriorIsFailureDefault(t)) =>
            LET age == mcall[t].at - macro_made[mcall[t].prior].at IN
            /\ age < MacroTtlHours * Hour =>
                  /\ macro_data[t] = mcall[t].prior
                  /\ ~mcall[t].fetched
                  /\ Len(macro_made) = mcall[t].prior
            /\ age >= MacroTtlHours * Hour =>
                  /\ macro_data[t] = mcall[t].prior + 1
                  /\ mcall[t].fetched
                  /\ macro_made[macro_data[t]].at = mcall[t].at

C26_Witness ==
    \E t \in callers :
        /\ pc[t] = "l118"
        /\ PriorIsFailureDefault(t)
        /\ nreqs = 3
        /\ Len(macro_made) = 2
        /\ mcall[t].at - macro_made[1].at = MacroTtlHours * Hour
        /\ macro_data[t] = 2

\* ------------------------------------------------------------------------
\* Properties of the database session of calculate_rating
\* ------------------------------------------------------------------------
\* C27: on every way out of calculate_rating, with a result or with a
\* failure, the session it used is closed exactly when it is not the
\* session the RatingService was built with: a session calculate_rating
\* opened itself is closed, the session of the instance stays open, and a
\* session of the caller that is not the instance's is closed. No session
\* is closed while the call that uses it still runs.
C27_SessionClosedUnlessOwn ==
    /\ \A x \in exits :
          x.how \in {"rating", "unavailable"}
              => /\ (x.db \in closed) = (x.db # x.own)
                 /\ x.db \in {OpenedSession(n) : n \in 1..nreqs}
                        => x.db \in closed
                 /\ x.db \in {CallerSession(n) : n \in 1..nreqs} \ {x.own}
                        => x.db \in closed
                 /\ x.own # 0 => x.own \notin closed
    /\ \A t \in callers : pc[t] # "idle" => db[t] \notin closed

\* a failed call that ran on a session of its caller, on a service that has
\* its own, and a call that returned a rating on a session it had opened
C27_Witness ==
    /\ \E x \in exits :
          /\ x.how = "unavailable"
          /\ x.own = OwnSession(eng[x.caller])
          /\ x.db \in {CallerSession(n) : n \in 1..nreqs}
          /\ x.db \in closed
    /\ \E x \in exits :
          /\ x.how = "rating"
          /\ x.db = x.own
          /\ x.db \notin closed

\* ------------------------------------------------------------------------
\* Properties of what a failed request leaves stored
\* ------------------------------------------------------------------------
\* the failed calls that had their technical snapshot when they failed
FailedAfterSnapshot == {x \in exits : x.how = "unavailable" /\ x.technical # 0}

\* the technical lookups for the symbol of x that ran after x left
LaterLookups(x) ==
    {i \in (x.lookups + 1)..Len(hist) :
        hist[i].kind = "technical" /\ hist[i].stock = x.symbol}

\* C28: what a rating request stored is still stored after it failed: when
\* calculate_rating reports unavailable after it got its technical snapshot
\* (say because the fundamental fetch gave no data), the Stock row and the
\* snapshot stay, and a later request for the symbol within the technical
\* TTL of that snapshot is served a stored snapshot, at least as new, with
\* no price fetch.
C28_FailureKeepsWhatWasStored ==
    \A x \in FailedAfterSnapshot :
        /\ x.symbol \in stocks
        /\ x.technical <= Len(technical_indicators)
        /\ technical_indicators[x.technical].stock_id = x.symbol
        /\ \A i \in LaterLookups(x) :
              hist[i].at - technical_indicators[x.technical].calculated_at
                    <= Ttl("technical")
                 => /\ hist[i].hit
                    /\ ~hist[i].fetch
                    /\ hist[i].row # 0
                    /\ hist[i].stamp
                          >= technical_indicators[x.technical].calculated_at

\* the first request creates the Stock row, stores its snapshot and fails at
\* the fundamental fetch; the next one is served that snapshot
C28_Witness ==
    \E x \in FailedAfterSnapshot :
        /\ x.n = 1
        /\ x.cont = "metric"
        /\ x.technical = Len(technical_indicators)
        /\ \E i \in LaterLookups(x) : hist[i].hit /\ hist[i].row = x.technical

\* ------------------------------------------------------------------------
\* Properties of the macro endpoints
\* ------------------------------------------------------------------------
\* the answers of the two read endpoints
Reads == {i \in 1..Len(served) : served[i].op \in ReadEndpoints}

\* C30: get_macro_environment and get_macro_indicators compute and store a
\* snapshot only when the store holds none; when it holds one they answer
\* the most recently created snapshot, whatever its age, and every snapshot
\* after the first is added by the refresh endpoint.
C30_ReadsStoreOnlyWhenEmpty ==
    /\ \A i \in Reads :
          /\ served[i].stored => served[i].held = 0
          /\ ~served[i].stored =>
                \A j \in 1..served[i].held :
                    macro_snapshots[j].created_at
                        <= macro_snapshots[served[i].snapshot].created_at
    /\ \A i \in 1..Len(served) :
          served[i].stored /\ served[i].snapshot > 1
              => served[i].op = "refresh"

====
